---- MODULE Spec2Model ----
(***************************************************************************)
(* The plagiarism scoring engine of the assignment submission system:      *)
(* src/plagiarism_detector.py (class PlagiarismDetector).                  *)
(*                                                                         *)
(* Texts are TLA+ strings; StrTab gives the characters of every string the *)
(* model handles, so that the text operations work on the characters.      *)
(* Probabilities and similarities are fixed-point numbers with unit        *)
(* 1/Unit (Unit = 10000 stands for 1.0); a score is in thousandths of a    *)
(* percent (100000 stands for 100.0).                                      *)
(***************************************************************************)
EXTENDS Integers, Sequences, FiniteSets, TLC

(***************************************************************************)
(* Strings and their characters.                                           *)
(***************************************************************************)
StrTab ==
  << <<"",
        <<>>>>,
     <<"Hello",
        <<"H", "e", "l", "l", "o">>>>,
     <<"   Hello   ",
        <<" ", " ", " ", "H", "e", "l", "l", "o", " ", " ", " ">>>>,
     <<"#-#-#-#-#-#",
        <<"#", "-", "#", "-", "#", "-", "#", "-", "#", "-", "#">>>>,
     <<"The quick brown fox jumps over the lazy dog.",
        <<"T", "h", "e", " ", "q", "u", "i", "c", "k", " ", "b", "r", "o", "w", "n", " ", "f", "o", "x", " ", "j", "u", "m", "p", "s", " ", "o", "v", "e", "r", " ", "t", "h", "e", " ", "l", "a", "z", "y", " ", "d", "o", "g", ".">>>>,
     <<" THE quick  brown fox jumps over the lazy dog. ",
        <<" ", "T", "H", "E", " ", "q", "u", "i", "c", "k", " ", " ", "b", "r", "o", "w", "n", " ", "f", "o", "x", " ", "j", "u", "m", "p", "s", " ", "o", "v", "e", "r", " ", "t", "h", "e", " ", "l", "a", "z", "y", " ", "d", "o", "g", ".", " ">>>>,
     <<"Machine learning is a subset of artificial intelligence that focuses on algorithms.",
        <<"M", "a", "c", "h", "i", "n", "e", " ", "l", "e", "a", "r", "n", "i", "n", "g", " ", "i", "s", " ", "a", " ", "s", "u", "b", "s", "e", "t", " ", "o", "f", " ", "a", "r", "t", "i", "f", "i", "c", "i", "a", "l", " ", "i", "n", "t", "e", "l", "l", "i", "g", "e", "n", "c", "e", " ", "t", "h", "a", "t", " ", "f", "o", "c", "u", "s", "e", "s", " ", "o", "n", " ", "a", "l", "g", "o", "r", "i", "t", "h", "m", "s", ".">>>>,
     <<"Machine learning focuses on algorithms.",
        <<"M", "a", "c", "h", "i", "n", "e", " ", "l", "e", "a", "r", "n", "i", "n", "g", " ", "f", "o", "c", "u", "s", "e", "s", " ", "o", "n", " ", "a", "l", "g", "o", "r", "i", "t", "h", "m", "s", ".">>>>,
     <<"Tom & Jerry",
        <<"T", "o", "m", " ", "&", " ", "J", "e", "r", "r", "y">>>>,
     <<"The importance of data preprocessing cannot be overstated in machine learning projects.",
        <<"T", "h", "e", " ", "i", "m", "p", "o", "r", "t", "a", "n", "c", "e", " ", "o", "f", " ", "d", "a", "t", "a", " ", "p", "r", "e", "p", "r", "o", "c", "e", "s", "s", "i", "n", "g", " ", "c", "a", "n", "n", "o", "t", " ", "b", "e", " ", "o", "v", "e", "r", "s", "t", "a", "t", "e", "d", " ", "i", "n", " ", "m", "a", "c", "h", "i", "n", "e", " ", "l", "e", "a", "r", "n", "i", "n", "g", " ", "p", "r", "o", "j", "e", "c", "t", "s", ".">>>>,
     <<"Neural networks are inspired by the biological neural networks of animal brains.",
        <<"N", "e", "u", "r", "a", "l", " ", "n", "e", "t", "w", "o", "r", "k", "s", " ", "a", "r", "e", " ", "i", "n", "s", "p", "i", "r", "e", "d", " ", "b", "y", " ", "t", "h", "e", " ", "b", "i", "o", "l", "o", "g", "i", "c", "a", "l", " ", "n", "e", "u", "r", "a", "l", " ", "n", "e", "t", "w", "o", "r", "k", "s", " ", "o", "f", " ", "a", "n", "i", "m", "a", "l", " ", "b", "r", "a", "i", "n", "s", ".">>>>,
     <<"Deep learning has revolutionized computer vision and natural language processing.",
        <<"D", "e", "e", "p", " ", "l", "e", "a", "r", "n", "i", "n", "g", " ", "h", "a", "s", " ", "r", "e", "v", "o", "l", "u", "t", "i", "o", "n", "i", "z", "e", "d", " ", "c", "o", "m", "p", "u", "t", "e", "r", " ", "v", "i", "s", "i", "o", "n", " ", "a", "n", "d", " ", "n", "a", "t", "u", "r", "a", "l", " ", "l", "a", "n", "g", "u", "a", "g", "e", " ", "p", "r", "o", "c", "e", "s", "s", "i", "n", "g", ".">>>>,
     <<"Support vector machines are effective for classification and regression tasks.",
        <<"S", "u", "p", "p", "o", "r", "t", " ", "v", "e", "c", "t", "o", "r", " ", "m", "a", "c", "h", "i", "n", "e", "s", " ", "a", "r", "e", " ", "e", "f", "f", "e", "c", "t", "i", "v", "e", " ", "f", "o", "r", " ", "c", "l", "a", "s", "s", "i", "f", "i", "c", "a", "t", "i", "o", "n", " ", "a", "n", "d", " ", "r", "e", "g", "r", "e", "s", "s", "i", "o", "n", " ", "t", "a", "s", "k", "s", ".">>>>,
     <<"Cross-validation is essential for evaluating machine learning model performance.",
        <<"C", "r", "o", "s", "s", "-", "v", "a", "l", "i", "d", "a", "t", "i", "o", "n", " ", "i", "s", " ", "e", "s", "s", "e", "n", "t", "i", "a", "l", " ", "f", "o", "r", " ", "e", "v", "a", "l", "u", "a", "t", "i", "n", "g", " ", "m", "a", "c", "h", "i", "n", "e", " ", "l", "e", "a", "r", "n", "i", "n", "g", " ", "m", "o", "d", "e", "l", " ", "p", "e", "r", "f", "o", "r", "m", "a", "n", "c", "e", ".">>>>,
     <<"Feature engineering plays a crucial role in the success of machine learning models.",
        <<"F", "e", "a", "t", "u", "r", "e", " ", "e", "n", "g", "i", "n", "e", "e", "r", "i", "n", "g", " ", "p", "l", "a", "y", "s", " ", "a", " ", "c", "r", "u", "c", "i", "a", "l", " ", "r", "o", "l", "e", " ", "i", "n", " ", "t", "h", "e", " ", "s", "u", "c", "c", "e", "s", "s", " ", "o", "f", " ", "m", "a", "c", "h", "i", "n", "e", " ", "l", "e", "a", "r", "n", "i", "n", "g", " ", "m", "o", "d", "e", "l", "s", ".">>>>,
     <<"Overfitting occurs when a model learns the training data too well.",
        <<"O", "v", "e", "r", "f", "i", "t", "t", "i", "n", "g", " ", "o", "c", "c", "u", "r", "s", " ", "w", "h", "e", "n", " ", "a", " ", "m", "o", "d", "e", "l", " ", "l", "e", "a", "r", "n", "s", " ", "t", "h", "e", " ", "t", "r", "a", "i", "n", "i", "n", "g", " ", "d", "a", "t", "a", " ", "t", "o", "o", " ", "w", "e", "l", "l", ".">>>>,
     <<"Regularization techniques help prevent overfitting in machine learning models.",
        <<"R", "e", "g", "u", "l", "a", "r", "i", "z", "a", "t", "i", "o", "n", " ", "t", "e", "c", "h", "n", "i", "q", "u", "e", "s", " ", "h", "e", "l", "p", " ", "p", "r", "e", "v", "e", "n", "t", " ", "o", "v", "e", "r", "f", "i", "t", "t", "i", "n", "g", " ", "i", "n", " ", "m", "a", "c", "h", "i", "n", "e", " ", "l", "e", "a", "r", "n", "i", "n", "g", " ", "m", "o", "d", "e", "l", "s", ".">>>>,
     <<"Ensemble methods combine multiple models to improve prediction accuracy.",
        <<"E", "n", "s", "e", "m", "b", "l", "e", " ", "m", "e", "t", "h", "o", "d", "s", " ", "c", "o", "m", "b", "i", "n", "e", " ", "m", "u", "l", "t", "i", "p", "l", "e", " ", "m", "o", "d", "e", "l", "s", " ", "t", "o", " ", "i", "m", "p", "r", "o", "v", "e", " ", "p", "r", "e", "d", "i", "c", "t", "i", "o", "n", " ", "a", "c", "c", "u", "r", "a", "c", "y", ".">>>>,
     <<"Machine learning is a part of artificial intelligence that concentrates on algorithms.",
        <<"M", "a", "c", "h", "i", "n", "e", " ", "l", "e", "a", "r", "n", "i", "n", "g", " ", "i", "s", " ", "a", " ", "p", "a", "r", "t", " ", "o", "f", " ", "a", "r", "t", "i", "f", "i", "c", "i", "a", "l", " ", "i", "n", "t", "e", "l", "l", "i", "g", "e", "n", "c", "e", " ", "t", "h", "a", "t", " ", "c", "o", "n", "c", "e", "n", "t", "r", "a", "t", "e", "s", " ", "o", "n", " ", "a", "l", "g", "o", "r", "i", "t", "h", "m", "s", ".">>>>,
     <<"The significance of data preprocessing cannot be understated in ML projects.",
        <<"T", "h", "e", " ", "s", "i", "g", "n", "i", "f", "i", "c", "a", "n", "c", "e", " ", "o", "f", " ", "d", "a", "t", "a", " ", "p", "r", "e", "p", "r", "o", "c", "e", "s", "s", "i", "n", "g", " ", "c", "a", "n", "n", "o", "t", " ", "b", "e", " ", "u", "n", "d", "e", "r", "s", "t", "a", "t", "e", "d", " ", "i", "n", " ", "M", "L", " ", "p", "r", "o", "j", "e", "c", "t", "s", ".">>>>,
     <<"Neural nets are inspired by the biological neural networks of animal minds.",
        <<"N", "e", "u", "r", "a", "l", " ", "n", "e", "t", "s", " ", "a", "r", "e", " ", "i", "n", "s", "p", "i", "r", "e", "d", " ", "b", "y", " ", "t", "h", "e", " ", "b", "i", "o", "l", "o", "g", "i", "c", "a", "l", " ", "n", "e", "u", "r", "a", "l", " ", "n", "e", "t", "w", "o", "r", "k", "s", " ", "o", "f", " ", "a", "n", "i", "m", "a", "l", " ", "m", "i", "n", "d", "s", ".">>>>,
     <<"Deep learning has transformed computer vision and natural language processing.",
        <<"D", "e", "e", "p", " ", "l", "e", "a", "r", "n", "i", "n", "g", " ", "h", "a", "s", " ", "t", "r", "a", "n", "s", "f", "o", "r", "m", "e", "d", " ", "c", "o", "m", "p", "u", "t", "e", "r", " ", "v", "i", "s", "i", "o", "n", " ", "a", "n", "d", " ", "n", "a", "t", "u", "r", "a", "l", " ", "l", "a", "n", "g", "u", "a", "g", "e", " ", "p", "r", "o", "c", "e", "s", "s", "i", "n", "g", ".">>>>,
     <<"Support vector machines are useful for classification and regression problems.",
        <<"S", "u", "p", "p", "o", "r", "t", " ", "v", "e", "c", "t", "o", "r", " ", "m", "a", "c", "h", "i", "n", "e", "s", " ", "a", "r", "e", " ", "u", "s", "e", "f", "u", "l", " ", "f", "o", "r", " ", "c", "l", "a", "s", "s", "i", "f", "i", "c", "a", "t", "i", "o", "n", " ", "a", "n", "d", " ", "r", "e", "g", "r", "e", "s", "s", "i", "o", "n", " ", "p", "r", "o", "b", "l", "e", "m", "s", ".">>>>,
     <<"Cross validation is essential for evaluating machine learning model performance.",
        <<"C", "r", "o", "s", "s", " ", "v", "a", "l", "i", "d", "a", "t", "i", "o", "n", " ", "i", "s", " ", "e", "s", "s", "e", "n", "t", "i", "a", "l", " ", "f", "o", "r", " ", "e", "v", "a", "l", "u", "a", "t", "i", "n", "g", " ", "m", "a", "c", "h", "i", "n", "e", " ", "l", "e", "a", "r", "n", "i", "n", "g", " ", "m", "o", "d", "e", "l", " ", "p", "e", "r", "f", "o", "r", "m", "a", "n", "c", "e", ".">>>>,
     <<"Feature engineering has a crucial role in the success of ML models.",
        <<"F", "e", "a", "t", "u", "r", "e", " ", "e", "n", "g", "i", "n", "e", "e", "r", "i", "n", "g", " ", "h", "a", "s", " ", "a", " ", "c", "r", "u", "c", "i", "a", "l", " ", "r", "o", "l", "e", " ", "i", "n", " ", "t", "h", "e", " ", "s", "u", "c", "c", "e", "s", "s", " ", "o", "f", " ", "M", "L", " ", "m", "o", "d", "e", "l", "s", ".">>>>,
     <<"Overfitting happens when a model learns the training data too well.",
        <<"O", "v", "e", "r", "f", "i", "t", "t", "i", "n", "g", " ", "h", "a", "p", "p", "e", "n", "s", " ", "w", "h", "e", "n", " ", "a", " ", "m", "o", "d", "e", "l", " ", "l", "e", "a", "r", "n", "s", " ", "t", "h", "e", " ", "t", "r", "a", "i", "n", "i", "n", "g", " ", "d", "a", "t", "a", " ", "t", "o", "o", " ", "w", "e", "l", "l", ".">>>>,
     <<"Regularization methods help prevent overfitting in machine learning models.",
        <<"R", "e", "g", "u", "l", "a", "r", "i", "z", "a", "t", "i", "o", "n", " ", "m", "e", "t", "h", "o", "d", "s", " ", "h", "e", "l", "p", " ", "p", "r", "e", "v", "e", "n", "t", " ", "o", "v", "e", "r", "f", "i", "t", "t", "i", "n", "g", " ", "i", "n", " ", "m", "a", "c", "h", "i", "n", "e", " ", "l", "e", "a", "r", "n", "i", "n", "g", " ", "m", "o", "d", "e", "l", "s", ".">>>>,
     <<"Ensemble techniques combine multiple models to improve prediction accuracy.",
        <<"E", "n", "s", "e", "m", "b", "l", "e", " ", "t", "e", "c", "h", "n", "i", "q", "u", "e", "s", " ", "c", "o", "m", "b", "i", "n", "e", " ", "m", "u", "l", "t", "i", "p", "l", "e", " ", "m", "o", "d", "e", "l", "s", " ", "t", "o", " ", "i", "m", "p", "r", "o", "v", "e", " ", "p", "r", "e", "d", "i", "c", "t", "i", "o", "n", " ", "a", "c", "c", "u", "r", "a", "c", "y", ".">>>>,
     <<"hello",
        <<"h", "e", "l", "l", "o">>>>,
     <<"the quick brown fox jumps over the lazy dog.",
        <<"t", "h", "e", " ", "q", "u", "i", "c", "k", " ", "b", "r", "o", "w", "n", " ", "f", "o", "x", " ", "j", "u", "m", "p", "s", " ", "o", "v", "e", "r", " ", "t", "h", "e", " ", "l", "a", "z", "y", " ", "d", "o", "g", ".">>>>,
     <<"machine learning is a subset of artificial intelligence that focuses on algorithms.",
        <<"m", "a", "c", "h", "i", "n", "e", " ", "l", "e", "a", "r", "n", "i", "n", "g", " ", "i", "s", " ", "a", " ", "s", "u", "b", "s", "e", "t", " ", "o", "f", " ", "a", "r", "t", "i", "f", "i", "c", "i", "a", "l", " ", "i", "n", "t", "e", "l", "l", "i", "g", "e", "n", "c", "e", " ", "t", "h", "a", "t", " ", "f", "o", "c", "u", "s", "e", "s", " ", "o", "n", " ", "a", "l", "g", "o", "r", "i", "t", "h", "m", "s", ".">>>>,
     <<"machine learning focuses on algorithms.",
        <<"m", "a", "c", "h", "i", "n", "e", " ", "l", "e", "a", "r", "n", "i", "n", "g", " ", "f", "o", "c", "u", "s", "e", "s", " ", "o", "n", " ", "a", "l", "g", "o", "r", "i", "t", "h", "m", "s", ".">>>>,
     <<"tom  jerry",
        <<"t", "o", "m", " ", " ", "j", "e", "r", "r", "y">>>>,
     <<"tom jerry",
        <<"t", "o", "m", " ", "j", "e", "r", "r", "y">>>>,
     <<"the importance of data preprocessing cannot be overstated in machine learning projects.",
        <<"t", "h", "e", " ", "i", "m", "p", "o", "r", "t", "a", "n", "c", "e", " ", "o", "f", " ", "d", "a", "t", "a", " ", "p", "r", "e", "p", "r", "o", "c", "e", "s", "s", "i", "n", "g", " ", "c", "a", "n", "n", "o", "t", " ", "b", "e", " ", "o", "v", "e", "r", "s", "t", "a", "t", "e", "d", " ", "i", "n", " ", "m", "a", "c", "h", "i", "n", "e", " ", "l", "e", "a", "r", "n", "i", "n", "g", " ", "p", "r", "o", "j", "e", "c", "t", "s", ".">>>>,
     <<"neural networks are inspired by the biological neural networks of animal brains.",
        <<"n", "e", "u", "r", "a", "l", " ", "n", "e", "t", "w", "o", "r", "k", "s", " ", "a", "r", "e", " ", "i", "n", "s", "p", "i", "r", "e", "d", " ", "b", "y", " ", "t", "h", "e", " ", "b", "i", "o", "l", "o", "g", "i", "c", "a", "l", " ", "n", "e", "u", "r", "a", "l", " ", "n", "e", "t", "w", "o", "r", "k", "s", " ", "o", "f", " ", "a", "n", "i", "m", "a", "l", " ", "b", "r", "a", "i", "n", "s", ".">>>>,
     <<"deep learning has revolutionized computer vision and natural language processing.",
        <<"d", "e", "e", "p", " ", "l", "e", "a", "r", "n", "i", "n", "g", " ", "h", "a", "s", " ", "r", "e", "v", "o", "l", "u", "t", "i", "o", "n", "i", "z", "e", "d", " ", "c", "o", "m", "p", "u", "t", "e", "r", " ", "v", "i", "s", "i", "o", "n", " ", "a", "n", "d", " ", "n", "a", "t", "u", "r", "a", "l", " ", "l", "a", "n", "g", "u", "a", "g", "e", " ", "p", "r", "o", "c", "e", "s", "s", "i", "n", "g", ".">>>>,
     <<"support vector machines are effective for classification and regression tasks.",
        <<"s", "u", "p", "p", "o", "r", "t", " ", "v", "e", "c", "t", "o", "r", " ", "m", "a", "c", "h", "i", "n", "e", "s", " ", "a", "r", "e", " ", "e", "f", "f", "e", "c", "t", "i", "v", "e", " ", "f", "o", "r", " ", "c", "l", "a", "s", "s", "i", "f", "i", "c", "a", "t", "i", "o", "n", " ", "a", "n", "d", " ", "r", "e", "g", "r", "e", "s", "s", "i", "o", "n", " ", "t", "a", "s", "k", "s", ".">>>>,
     <<"crossvalidation is essential for evaluating machine learning model performance.",
        <<"c", "r", "o", "s", "s", "v", "a", "l", "i", "d", "a", "t", "i", "o", "n", " ", "i", "s", " ", "e", "s", "s", "e", "n", "t", "i", "a", "l", " ", "f", "o", "r", " ", "e", "v", "a", "l", "u", "a", "t", "i", "n", "g", " ", "m", "a", "c", "h", "i", "n", "e", " ", "l", "e", "a", "r", "n", "i", "n", "g", " ", "m", "o", "d", "e", "l", " ", "p", "e", "r", "f", "o", "r", "m", "a", "n", "c", "e", ".">>>>,
     <<"feature engineering plays a crucial role in the success of machine learning models.",
        <<"f", "e", "a", "t", "u", "r", "e", " ", "e", "n", "g", "i", "n", "e", "e", "r", "i", "n", "g", " ", "p", "l", "a", "y", "s", " ", "a", " ", "c", "r", "u", "c", "i", "a", "l", " ", "r", "o", "l", "e", " ", "i", "n", " ", "t", "h", "e", " ", "s", "u", "c", "c", "e", "s", "s", " ", "o", "f", " ", "m", "a", "c", "h", "i", "n", "e", " ", "l", "e", "a", "r", "n", "i", "n", "g", " ", "m", "o", "d", "e", "l", "s", ".">>>>,
     <<"overfitting occurs when a model learns the training data too well.",
        <<"o", "v", "e", "r", "f", "i", "t", "t", "i", "n", "g", " ", "o", "c", "c", "u", "r", "s", " ", "w", "h", "e", "n", " ", "a", " ", "m", "o", "d", "e", "l", " ", "l", "e", "a", "r", "n", "s", " ", "t", "h", "e", " ", "t", "r", "a", "i", "n", "i", "n", "g", " ", "d", "a", "t", "a", " ", "t", "o", "o", " ", "w", "e", "l", "l", ".">>>>,
     <<"regularization techniques help prevent overfitting in machine learning models.",
        <<"r", "e", "g", "u", "l", "a", "r", "i", "z", "a", "t", "i", "o", "n", " ", "t", "e", "c", "h", "n", "i", "q", "u", "e", "s", " ", "h", "e", "l", "p", " ", "p", "r", "e", "v", "e", "n", "t", " ", "o", "v", "e", "r", "f", "i", "t", "t", "i", "n", "g", " ", "i", "n", " ", "m", "a", "c", "h", "i", "n", "e", " ", "l", "e", "a", "r", "n", "i", "n", "g", " ", "m", "o", "d", "e", "l", "s", ".">>>>,
     <<"ensemble methods combine multiple models to improve prediction accuracy.",
        <<"e", "n", "s", "e", "m", "b", "l", "e", " ", "m", "e", "t", "h", "o", "d", "s", " ", "c", "o", "m", "b", "i", "n", "e", " ", "m", "u", "l", "t", "i", "p", "l", "e", " ", "m", "o", "d", "e", "l", "s", " ", "t", "o", " ", "i", "m", "p", "r", "o", "v", "e", " ", "p", "r", "e", "d", "i", "c", "t", "i", "o", "n", " ", "a", "c", "c", "u", "r", "a", "c", "y", ".">>>>,
     <<"machine learning is a part of artificial intelligence that concentrates on algorithms.",
        <<"m", "a", "c", "h", "i", "n", "e", " ", "l", "e", "a", "r", "n", "i", "n", "g", " ", "i", "s", " ", "a", " ", "p", "a", "r", "t", " ", "o", "f", " ", "a", "r", "t", "i", "f", "i", "c", "i", "a", "l", " ", "i", "n", "t", "e", "l", "l", "i", "g", "e", "n", "c", "e", " ", "t", "h", "a", "t", " ", "c", "o", "n", "c", "e", "n", "t", "r", "a", "t", "e", "s", " ", "o", "n", " ", "a", "l", "g", "o", "r", "i", "t", "h", "m", "s", ".">>>>,
     <<"the significance of data preprocessing cannot be understated in ml projects.",
        <<"t", "h", "e", " ", "s", "i", "g", "n", "i", "f", "i", "c", "a", "n", "c", "e", " ", "o", "f", " ", "d", "a", "t", "a", " ", "p", "r", "e", "p", "r", "o", "c", "e", "s", "s", "i", "n", "g", " ", "c", "a", "n", "n", "o", "t", " ", "b", "e", " ", "u", "n", "d", "e", "r", "s", "t", "a", "t", "e", "d", " ", "i", "n", " ", "m", "l", " ", "p", "r", "o", "j", "e", "c", "t", "s", ".">>>>,
     <<"neural nets are inspired by the biological neural networks of animal minds.",
        <<"n", "e", "u", "r", "a", "l", " ", "n", "e", "t", "s", " ", "a", "r", "e", " ", "i", "n", "s", "p", "i", "r", "e", "d", " ", "b", "y", " ", "t", "h", "e", " ", "b", "i", "o", "l", "o", "g", "i", "c", "a", "l", " ", "n", "e", "u", "r", "a", "l", " ", "n", "e", "t", "w", "o", "r", "k", "s", " ", "o", "f", " ", "a", "n", "i", "m", "a", "l", " ", "m", "i", "n", "d", "s", ".">>>>,
     <<"deep learning has transformed computer vision and natural language processing.",
        <<"d", "e", "e", "p", " ", "l", "e", "a", "r", "n", "i", "n", "g", " ", "h", "a", "s", " ", "t", "r", "a", "n", "s", "f", "o", "r", "m", "e", "d", " ", "c", "o", "m", "p", "u", "t", "e", "r", " ", "v", "i", "s", "i", "o", "n", " ", "a", "n", "d", " ", "n", "a", "t", "u", "r", "a", "l", " ", "l", "a", "n", "g", "u", "a", "g", "e", " ", "p", "r", "o", "c", "e", "s", "s", "i", "n", "g", ".">>>>,
     <<"support vector machines are useful for classification and regression problems.",
        <<"s", "u", "p", "p", "o", "r", "t", " ", "v", "e", "c", "t", "o", "r", " ", "m", "a", "c", "h", "i", "n", "e", "s", " ", "a", "r", "e", " ", "u", "s", "e", "f", "u", "l", " ", "f", "o", "r", " ", "c", "l", "a", "s", "s", "i", "f", "i", "c", "a", "t", "i", "o", "n", " ", "a", "n", "d", " ", "r", "e", "g", "r", "e", "s", "s", "i", "o", "n", " ", "p", "r", "o", "b", "l", "e", "m", "s", ".">>>>,
     <<"cross validation is essential for evaluating machine learning model performance.",
        <<"c", "r", "o", "s", "s", " ", "v", "a", "l", "i", "d", "a", "t", "i", "o", "n", " ", "i", "s", " ", "e", "s", "s", "e", "n", "t", "i", "a", "l", " ", "f", "o", "r", " ", "e", "v", "a", "l", "u", "a", "t", "i", "n", "g", " ", "m", "a", "c", "h", "i", "n", "e", " ", "l", "e", "a", "r", "n", "i", "n", "g", " ", "m", "o", "d", "e", "l", " ", "p", "e", "r", "f", "o", "r", "m", "a", "n", "c", "e", ".">>>>,
     <<"feature engineering has a crucial role in the success of ml models.",
        <<"f", "e", "a", "t", "u", "r", "e", " ", "e", "n", "g", "i", "n", "e", "e", "r", "i", "n", "g", " ", "h", "a", "s", " ", "a", " ", "c", "r", "u", "c", "i", "a", "l", " ", "r", "o", "l", "e", " ", "i", "n", " ", "t", "h", "e", " ", "s", "u", "c", "c", "e", "s", "s", " ", "o", "f", " ", "m", "l", " ", "m", "o", "d", "e", "l", "s", ".">>>>,
     <<"overfitting happens when a model learns the training data too well.",
        <<"o", "v", "e", "r", "f", "i", "t", "t", "i", "n", "g", " ", "h", "a", "p", "p", "e", "n", "s", " ", "w", "h", "e", "n", " ", "a", " ", "m", "o", "d", "e", "l", " ", "l", "e", "a", "r", "n", "s", " ", "t", "h", "e", " ", "t", "r", "a", "i", "n", "i", "n", "g", " ", "d", "a", "t", "a", " ", "t", "o", "o", " ", "w", "e", "l", "l", ".">>>>,
     <<"regularization methods help prevent overfitting in machine learning models.",
        <<"r", "e", "g", "u", "l", "a", "r", "i", "z", "a", "t", "i", "o", "n", " ", "m", "e", "t", "h", "o", "d", "s", " ", "h", "e", "l", "p", " ", "p", "r", "e", "v", "e", "n", "t", " ", "o", "v", "e", "r", "f", "i", "t", "t", "i", "n", "g", " ", "i", "n", " ", "m", "a", "c", "h", "i", "n", "e", " ", "l", "e", "a", "r", "n", "i", "n", "g", " ", "m", "o", "d", "e", "l", "s", ".">>>>,
     <<"ensemble techniques combine multiple models to improve prediction accuracy.",
        <<"e", "n", "s", "e", "m", "b", "l", "e", " ", "t", "e", "c", "h", "n", "i", "q", "u", "e", "s", " ", "c", "o", "m", "b", "i", "n", "e", " ", "m", "u", "l", "t", "i", "p", "l", "e", " ", "m", "o", "d", "e", "l", "s", " ", "t", "o", " ", "i", "m", "p", "r", "o", "v", "e", " ", "p", "r", "e", "d", "i", "c", "t", "i", "o", "n", " ", "a", "c", "c", "u", "r", "a", "c", "y", ".">>>>,
     <<"a",
        <<"a">>>>,
     <<"about",
        <<"a", "b", "o", "u", "t">>>>,
     <<"all",
        <<"a", "l", "l">>>>,
     <<"also",
        <<"a", "l", "s", "o">>>>,
     <<"an",
        <<"a", "n">>>>,
     <<"and",
        <<"a", "n", "d">>>>,
     <<"are",
        <<"a", "r", "e">>>>,
     <<"as",
        <<"a", "s">>>>,
     <<"at",
        <<"a", "t">>>>,
     <<"be",
        <<"b", "e">>>>,
     <<"by",
        <<"b", "y">>>>,
     <<"can",
        <<"c", "a", "n">>>>,
     <<"cannot",
        <<"c", "a", "n", "n", "o", "t">>>>,
     <<"for",
        <<"f", "o", "r">>>>,
     <<"from",
        <<"f", "r", "o", "m">>>>,
     <<"has",
        <<"h", "a", "s">>>>,
     <<"have",
        <<"h", "a", "v", "e">>>>,
     <<"in",
        <<"i", "n">>>>,
     <<"is",
        <<"i", "s">>>>,
     <<"it",
        <<"i", "t">>>>,
     <<"of",
        <<"o", "f">>>>,
     <<"on",
        <<"o", "n">>>>,
     <<"or",
        <<"o", "r">>>>,
     <<"over",
        <<"o", "v", "e", "r">>>>,
     <<"part",
        <<"p", "a", "r", "t">>>>,
     <<"that",
        <<"t", "h", "a", "t">>>>,
     <<"the",
        <<"t", "h", "e">>>>,
     <<"this",
        <<"t", "h", "i", "s">>>>,
     <<"to",
        <<"t", "o">>>>,
     <<"too",
        <<"t", "o", "o">>>>,
     <<"well",
        <<"w", "e", "l", "l">>>>,
     <<"when",
        <<"w", "h", "e", "n">>>>,
     <<"with",
        <<"w", "i", "t", "h">>>> >>

KnownStrings == {StrTab[i][1] : i \in DOMAIN StrTab}

Chars(s) == StrTab[CHOOSE i \in DOMAIN StrTab : StrTab[i][1] = s][2]

Str(cs) == StrTab[CHOOSE i \in DOMAIN StrTab : StrTab[i][2] = cs][1]

UpperCase == <<"A", "B", "C", "D", "E", "F", "G", "H", "I", "J", "K", "L", "M",
               "N", "O", "P", "Q", "R", "S", "T", "U", "V", "W", "X", "Y", "Z">>

LowerCase == <<"a", "b", "c", "d", "e", "f", "g", "h", "i", "j", "k", "l", "m",
               "n", "o", "p", "q", "r", "s", "t", "u", "v", "w", "x", "y", "z">>

Digits == {"0", "1", "2", "3", "4", "5", "6", "7", "8", "9"}

\* \s of the regular expressions, and the characters str.strip() and
\* str.split() treat as blank
Whitespace == {" ", "\t", "\n"}

\* \w of the regular expressions
WordChars == {UpperCase[i] : i \in 1..26} \cup {LowerCase[i] : i \in 1..26}
                 \cup Digits \cup {"_"}

\* the punctuation preprocess_text keeps and extract_features counts
Punctuation == {".", ",", "!", "?", ";", ":"}

\* the characters re.split(r'[.!?]+') splits on
SentenceEnd == {".", "!", "?"}

Range(s) == {s[i] : i \in DOMAIN s}

RECURSIVE SumSeq(_)
SumSeq(s) == IF s = <<>> THEN 0 ELSE Head(s) + SumSeq(Tail(s))

\* np.max of a non-empty row
\* a variant that takes the first element
FirstSeq(s) == s[1]

MaxSeq(s) == CHOOSE m \in {s[i] : i \in DOMAIN s} : \A i \in DOMAIN s : m >= s[i]

SetMin(S) == CHOOSE m \in S : \A x \in S : m <= x

SetMax(S) == CHOOSE m \in S : \A x \in S : m >= x

\* the k-th smallest member of a set of numbers
Nth(S, k) == CHOOSE m \in S : Cardinality({x \in S : x <= m}) = k

\* the maximal runs of the positions that mask marks, in order
Runs(cs, mask) ==
  LET starts   == {i \in DOMAIN cs : mask[i] /\ (i = 1 \/ ~mask[i - 1])}
      EndOf(i) == SetMin({j \in i..Len(cs) : j = Len(cs) \/ ~mask[j + 1]})
  IN  [k \in 1..Cardinality(starts) |->
         SubSeq(cs, Nth(starts, k), EndOf(Nth(starts, k)))]

\* str.strip(): drop the blanks at both ends
strip(cs) ==
  LET solid == {i \in DOMAIN cs : cs[i] \notin Whitespace}
  IN  IF solid = {} THEN <<>> ELSE SubSeq(cs, SetMin(solid), SetMax(solid))

\* re.sub(r'\s+', ' ', .): every run of blanks becomes one space
FirstOfRun(m) == ~m[2]

collapse_whitespace(cs) ==
  LET marked == [i \in DOMAIN cs |->
                   IF cs[i] \in Whitespace
                   THEN <<" ", i > 1 /\ cs[i - 1] \in Whitespace>>
                   ELSE <<cs[i], FALSE>>]
      kept   == SelectSeq(marked, FirstOfRun)
  IN  [i \in DOMAIN kept |-> kept[i][1]]

\* re.sub(r'[^\w\s.,!?;:]', '', .)
KeptChar(c) == c \in WordChars \cup Whitespace \cup Punctuation

remove_special(cs) == SelectSeq(cs, KeptChar)

\* str.lower()
lower_char(c) ==
  IF \E i \in 1..26 : UpperCase[i] = c
  THEN LowerCase[CHOOSE i \in 1..26 : UpperCase[i] = c]
  ELSE c

lower(cs) == [i \in DOMAIN cs |-> lower_char(cs[i])]

preprocess_chars(cs) == lower(remove_special(collapse_whitespace(strip(cs))))

PreprocessTable == [t \in KnownStrings |-> Str(preprocess_chars(Chars(t)))]

preprocess_text(text) == PreprocessTable[text]

\* str.split(): the blank-delimited words
split(cs) == Runs(cs, [i \in DOMAIN cs |-> cs[i] \notin Whitespace])

\* len(re.split(r'[.!?]+', text)): one more than the runs of . ! ?
sentence_count_of(cs) ==
  1 + Cardinality({i \in DOMAIN cs :
                     /\ cs[i] \in SentenceEnd
                     /\ (i = 1 \/ cs[i - 1] \notin SentenceEnd)})

(***************************************************************************)
(* Fixed-point numbers: Unit stands for 1.0.  NaN is what numpy's mean of  *)
(* an empty list is.                                                       *)
(***************************************************************************)
Unit == 100 * 100

Float(v) == [nan |-> FALSE, val |-> v]

NaN == [nan |-> TRUE, val |-> 0]

(***************************************************************************)
(* extract_features: the six stylometric features of a normalized text.    *)
(***************************************************************************)
extract_features_of(cs) ==
  LET words               == split(cs)
      word_count          == Len(words)
      char_count          == Len(cs)
      sentence_count      == sentence_count_of(cs)
      \* np.mean of the word lengths: NaN for no word
      avg_word_length     ==
        IF word_count = 0 THEN NaN
        ELSE Float((SumSeq([i \in DOMAIN words |-> Len(words[i])]) * Unit)
                     \div word_count)
      unique_words        == Cardinality(Range(words))
      vocabulary_richness ==
        IF word_count > 0 THEN (unique_words * Unit) \div word_count ELSE 0
      punctuation_count   ==
        Cardinality({i \in DOMAIN cs : cs[i] \in Punctuation})
      punctuation_density ==
        IF char_count > 0 THEN (punctuation_count * Unit) \div char_count ELSE 0
  IN  [word_count          |-> word_count,
       char_count          |-> char_count,
       sentence_count      |-> sentence_count,
       avg_word_length     |-> avg_word_length,
       vocabulary_richness |-> vocabulary_richness,
       punctuation_density |-> punctuation_density]

FeatureTable == [t \in KnownStrings |-> extract_features_of(Chars(t))]

extract_features(text) == FeatureTable[text]

(***************************************************************************)
(* The TfidfVectorizer of __init__: stop_words='english',                  *)
(* ngram_range=(1, 3), lowercase=True, and the default token pattern       *)
(* \b\w\w+\b.  A document's row is its bag of 1- to 3-grams of the tokens  *)
(* left after the stop words are dropped.  The idf reweighting is left     *)
(* out: a term weighs its count.  max_features=5000 never cuts the         *)
(* vocabulary of the corpora handled here.                                 *)
(***************************************************************************)
NgramMin == 1

NgramMax == 3

\* the words of scikit-learn's English stop list that occur in StrTab's texts
StopWords ==
  {Chars(w) : w \in
     {"a", "about", "all", "also", "an", "and", "are", "as", "at", "be",
      "by", "can", "cannot", "for", "from", "has", "have", "in", "is", "it",
      "of", "on", "or", "over", "part", "that", "the", "this", "to", "too",
      "well", "when", "with"}}

\* the maximal runs of word characters
word_runs(cs) == Runs(cs, [i \in DOMAIN cs |-> cs[i] \in WordChars])

IsToken(run) == Len(run) >= 2 /\ run \notin StopWords

tokenize(cs) == SelectSeq(word_runs(lower(cs)), IsToken)

\* the n-grams of a token sequence, n from NgramMin to NgramMax
word_ngrams(tokens) ==
  {SubSeq(tokens, i, i + n - 1) :
     <<i, n>> \in {p \in (1..Len(tokens)) \X (NgramMin..NgramMax) :
                     p[1] + p[2] - 1 <= Len(tokens)}}

ngram_count(tokens, g) ==
  Cardinality({i \in 1..Len(tokens) :
                 /\ i + Len(g) - 1 <= Len(tokens)
                 /\ SubSeq(tokens, i, i + Len(g) - 1) = g})

term_counts(cs) ==
  LET tokens == tokenize(cs)
  IN  [g \in word_ngrams(tokens) |-> ngram_count(tokens, g)]

\* the texts the reference corpus and the candidates can be
CorpusStrings == {preprocess_text(t) : t \in KnownStrings}

TermTable == [d \in CorpusStrings |-> term_counts(Chars(d))]

RECURSIVE SumOver(_, _)
SumOver(f, S) ==
  IF S = {} THEN 0
  ELSE LET x == CHOOSE x \in S : TRUE IN f[x] + SumOver(f, S \ {x})

dot(a, b) ==
  LET common == DOMAIN a \cap DOMAIN b
  IN  SumOver([g \in common |-> a[g] * b[g]], common)

\* the largest r with r * r <= x, for 0 <= x <= hi * hi
RECURSIVE isqrt_between(_, _, _)
isqrt_between(x, lo, hi) ==
  IF lo = hi THEN lo
  ELSE LET mid == (lo + hi + 1) \div 2
       IN  IF mid * mid <= x THEN isqrt_between(x, mid, hi)
           ELSE isqrt_between(x, lo, mid - 1)

\* the cosine of two rows in fixed point, rounded down; 0 for a zero row
\* (sklearn's normalize leaves a zero row zero)
cosine(a, b) ==
  LET ab  == dot(a, b)
      num == ab * ab
      den == dot(a, a) * dot(b, b)
      q1  == (num * Unit) \div den
      r1  == (num * Unit) % den
  IN  IF den = 0 THEN 0
      ELSE isqrt_between(q1 * Unit + (r1 * Unit) \div den, 0, Unit)

CosineTable == [d \in CorpusStrings |-> [e \in CorpusStrings |->
                  cosine(TermTable[d], TermTable[e])]]

(***************************************************************************)
(* The classifier.  SVC.fit on the fixed training set with random_state=42 *)
(* yields one classifier, the same at every training; which function of    *)
(* the features it is is not fixed here: svc_fit is any of FitOutcomes.    *)
(***************************************************************************)
Unfitted == [fitted |-> FALSE, cut |-> 0, below |-> 0, above |-> 0]

FitOutcomes ==
  {[fitted |-> TRUE, cut |-> 0, below |-> 0, above |-> 0],
   [fitted |-> TRUE, cut |-> 0, below |-> 0, above |-> Unit],
   [fitted |-> TRUE, cut |-> 10, below |-> Unit \div 4, above |-> (9 * Unit) \div 10]}

\* svm_model.predict_proba([features])[0][1]; raises for a classifier that
\* was never fitted and for a feature vector that holds NaN
predict_proba(svm, features) ==
  IF ~svm.fitted \/ features.avg_word_length.nan
  THEN [raised |-> TRUE, ret |-> 0]
  ELSE [raised |-> FALSE,
        ret |-> IF features.word_count < svm.cut THEN svm.below ELSE svm.above]

\* the vectorizer as __init__ makes it, and as a fit leaves it: what a fit
\* learns (vocabulary_, idf_) is a function of the documents it was fit on
FreshVectorizer == [fitted |-> FALSE, docs |-> <<>>]

has_terms(doc) == DOMAIN TermTable[doc] /= {}

\* vectorizer.fit_transform(docs): raises ValueError (empty vocabulary)
\* before anything is stored when no document has a term; row i of the
\* matrix is the row of docs[i], stood for by docs[i] itself
fit_transform(vectorizer, docs) ==
  IF \A i \in DOMAIN docs : ~has_terms(docs[i])
  THEN [raised |-> TRUE, vectorizer |-> vectorizer, matrix |-> <<>>]
  ELSE [raised |-> FALSE,
        vectorizer |-> [fitted |-> TRUE, docs |-> docs],
        matrix |-> docs]

\* cosine_similarity(tfidf_matrix[-1:], tfidf_matrix[:-1])
cosine_similarity(matrix) ==
  [i \in 1..(Len(matrix) - 1) |-> CosineTable[matrix[Len(matrix)]][matrix[i]]]

(***************************************************************************)
(* The detector object: self is [svm_model, vectorizer, reference_texts],  *)
(* which is also the model_data that save_model pickles.  A method is an   *)
(* operator from self (and the file) to what it returns and leaves behind. *)
(***************************************************************************)
MinTextLength == 10

SvmWeight == 6

SimilarityWeight == 4

ScoreCap == 100

LowBelow == 15

MediumBelow == 30

HighBelow == 50

\* a score is in thousandths of a percent
Milli == 10 * 100

Min(a, b) == IF a <= b THEN a ELSE b

\* round(x, 2) of a score: to the nearest hundredth of a percent
round2(x) ==
  LET q == x \div 10
      r == x % 10
  IN  IF r < 5 THEN q * 10
      ELSE IF r > 5 THEN (q + 1) * 10
      ELSE IF q % 2 = 0 THEN q * 10 ELSE (q + 1) * 10

\* len(text.strip()), len(text) and text.split()
StrippedLengthTable == [t \in KnownStrings |-> Len(strip(Chars(t)))]

stripped_length(text) == StrippedLengthTable[text]

LengthTable == [t \in KnownStrings |-> Len(Chars(t))]

char_length(text) == LengthTable[text]

SplitTable == [t \in KnownStrings |-> split(Chars(t))]

words_of(text) == SplitTable[text]

\* Body of v, with v evaluated once
With(v, Body(_)) == CHOOSE out \in {Body(x) : x \in {v}} : TRUE

\* a variant that keeps the fitted vectorizer and measures the text against
\* the documents it was fitted on
calculate_similarity_score_transform_only(self, text) ==
  IF self.reference_texts = <<>>
  THEN [ret |-> 0, self |-> self]
  ELSE LET processed_text == preprocess_text(text)
           all_texts      == IF self.vectorizer.fitted
                             THEN Append(self.vectorizer.docs, processed_text)
                             ELSE Append(self.reference_texts, processed_text)
       IN  With(fit_transform(self.vectorizer, all_texts), LAMBDA fit :
             IF fit.raised
             THEN [ret |-> 0, self |-> self]
             ELSE [ret  |-> MaxSeq(cosine_similarity(fit.matrix)),
                   self |-> IF self.vectorizer.fitted THEN self
                            ELSE [self EXCEPT !.vectorizer = fit.vectorizer]])

calculate_similarity_score(self, text) ==
  IF self.reference_texts = <<>>
  THEN [ret |-> 0, self |-> self]
  ELSE LET processed_text == preprocess_text(text)
           all_texts      == Append(self.reference_texts, processed_text)
       IN  With(fit_transform(self.vectorizer, all_texts), LAMBDA fit :
             IF fit.raised
             THEN [ret |-> 0, self |-> self]
             ELSE [ret  |-> MaxSeq(cosine_similarity(fit.matrix)),
                   self |-> [self EXCEPT !.vectorizer = fit.vectorizer]])

\* a variant that subtracts the similarity term
detect_plagiarism_difference(self, text) ==
  IF text = "" \/ stripped_length(text) < MinTextLength
  THEN [ret |-> 0, self |-> self, calls |-> {},
        svm_probability |-> 0, similarity_score |-> 0]
  ELSE LET processed_text  == preprocess_text(text)
           text_features   == extract_features(processed_text)
           proba           == predict_proba(self.svm_model, text_features)
           svm_probability == IF proba.raised THEN 0 ELSE proba.ret
       IN  With(calculate_similarity_score(self, text), LAMBDA sim :
             LET final_score ==
                   ((svm_probability * SvmWeight - sim.ret * SimilarityWeight)
                       * 100) \div ((10 * Unit) \div Milli)
             IN  [ret  |-> Min(final_score, ScoreCap * Milli),
                  self |-> sim.self,
                  calls |-> {"classifier", "similarity"},
                  svm_probability  |-> svm_probability,
                  similarity_score |-> sim.ret])

\* a variant whose guard measures the text as given
detect_plagiarism_unstripped(self, text) ==
  IF text = "" \/ char_length(text) < MinTextLength
  THEN [ret |-> 0, self |-> self, calls |-> {},
        svm_probability |-> 0, similarity_score |-> 0]
  ELSE LET processed_text  == preprocess_text(text)
           text_features   == extract_features(processed_text)
           proba           == predict_proba(self.svm_model, text_features)
           svm_probability == IF proba.raised THEN 0 ELSE proba.ret
       IN  With(calculate_similarity_score(self, text), LAMBDA sim :
             LET final_score ==
                   ((svm_probability * SvmWeight + sim.ret * SimilarityWeight)
                       * 100) \div ((10 * Unit) \div Milli)
             IN  [ret  |-> Min(final_score, ScoreCap * Milli),
                  self |-> sim.self,
                  calls |-> {"classifier", "similarity"},
                  svm_probability  |-> svm_probability,
                  similarity_score |-> sim.ret])

\* a variant with the two weights exchanged
detect_plagiarism_swapped_weights(self, text) ==
  IF text = "" \/ stripped_length(text) < MinTextLength
  THEN [ret |-> 0, self |-> self, calls |-> {},
        svm_probability |-> 0, similarity_score |-> 0]
  ELSE LET processed_text  == preprocess_text(text)
           text_features   == extract_features(processed_text)
           proba           == predict_proba(self.svm_model, text_features)
           svm_probability == IF proba.raised THEN 0 ELSE proba.ret
       IN  With(calculate_similarity_score(self, text), LAMBDA sim :
             LET final_score ==
                   ((svm_probability * SimilarityWeight + sim.ret * SvmWeight)
                       * 100) \div ((10 * Unit) \div Milli)
             IN  [ret  |-> Min(final_score, ScoreCap * Milli),
                  self |-> sim.self,
                  calls |-> {"classifier", "similarity"},
                  svm_probability  |-> svm_probability,
                  similarity_score |-> sim.ret])

\* a variant that returns early for the empty text only
detect_plagiarism_unguarded(self, text) ==
  IF text = ""
  THEN [ret |-> 0, self |-> self, calls |-> {},
        svm_probability |-> 0, similarity_score |-> 0]
  ELSE LET processed_text  == preprocess_text(text)
           text_features   == extract_features(processed_text)
           proba           == predict_proba(self.svm_model, text_features)
           svm_probability == IF proba.raised THEN 0 ELSE proba.ret
       IN  With(calculate_similarity_score(self, text), LAMBDA sim :
             LET final_score ==
                   ((svm_probability * SvmWeight + sim.ret * SimilarityWeight)
                       * 100) \div ((10 * Unit) \div Milli)
             IN  [ret  |-> Min(final_score, ScoreCap * Milli),
                  self |-> sim.self,
                  calls |-> {"classifier", "similarity"},
                  svm_probability  |-> svm_probability,
                  similarity_score |-> sim.ret])

\* a variant that takes a failed inference for certainty
detect_plagiarism_failing_high(self, text) ==
  IF text = "" \/ stripped_length(text) < MinTextLength
  THEN [ret |-> 0, self |-> self, calls |-> {},
        svm_probability |-> 0, similarity_score |-> 0]
  ELSE LET processed_text  == preprocess_text(text)
           text_features   == extract_features(processed_text)
           proba           == predict_proba(self.svm_model, text_features)
           svm_probability == IF proba.raised THEN Unit ELSE proba.ret
       IN  With(calculate_similarity_score(self, text), LAMBDA sim :
             LET final_score ==
                   ((svm_probability * SvmWeight + sim.ret * SimilarityWeight)
                       * 100) \div ((10 * Unit) \div Milli)
             IN  [ret  |-> Min(final_score, ScoreCap * Milli),
                  self |-> sim.self,
                  calls |-> {"classifier", "similarity"},
                  svm_probability  |-> svm_probability,
                  similarity_score |-> sim.ret])

\* calls: the components the call went through
detect_plagiarism(self, text) ==
  IF text = "" \/ stripped_length(text) < MinTextLength
  THEN [ret |-> 0, self |-> self, calls |-> {},
        svm_probability |-> 0, similarity_score |-> 0]
  ELSE LET processed_text  == preprocess_text(text)
           text_features   == extract_features(processed_text)
           proba           == predict_proba(self.svm_model, text_features)
           svm_probability == IF proba.raised THEN 0 ELSE proba.ret
       IN  With(calculate_similarity_score(self, text), LAMBDA sim :
             LET final_score ==
                   ((svm_probability * SvmWeight + sim.ret * SimilarityWeight)
                       * 100) \div ((10 * Unit) \div Milli)
             IN  [ret  |-> Min(final_score, ScoreCap * Milli),
                  self |-> sim.self,
                  calls |-> {"classifier", "similarity"},
                  svm_probability  |-> svm_probability,
                  similarity_score |-> sim.ret])

get_recommendations(score) ==
  IF score < LowBelow * Milli
  THEN <<"Content appears to be original.",
         "Good academic integrity maintained.">>
  ELSE IF score < MediumBelow * Milli
  THEN <<"Some similarities detected with existing content.",
         "Review citations and references.",
         "Consider paraphrasing similar sections.">>
  ELSE IF score < HighBelow * Milli
  THEN <<"Significant similarities found.",
         "Manual review recommended.",
         "Check for proper citations and quotations.",
         "Consider rewriting similar sections.">>
  ELSE <<"High plagiarism risk detected.",
         "Immediate manual review required.",
         "Substantial rewriting may be necessary.",
         "Verify all sources are properly cited.">>

\* a variant that tests the Medium threshold first
risk_of_misordered(plagiarism_score) ==
  IF plagiarism_score < MediumBelow * Milli
  THEN [level |-> "Medium", color |-> "yellow"]
  ELSE IF plagiarism_score < LowBelow * Milli
  THEN [level |-> "Low", color |-> "green"]
  ELSE IF plagiarism_score < HighBelow * Milli
  THEN [level |-> "High", color |-> "orange"]
  ELSE [level |-> "Very High", color |-> "red"]

risk_of(plagiarism_score) ==
  IF plagiarism_score < LowBelow * Milli
  THEN [level |-> "Low", color |-> "green"]
  ELSE IF plagiarism_score < MediumBelow * Milli
  THEN [level |-> "Medium", color |-> "yellow"]
  ELSE IF plagiarism_score < HighBelow * Milli
  THEN [level |-> "High", color |-> "orange"]
  ELSE [level |-> "Very High", color |-> "red"]

\* a variant that counts the words and characters of the text as given and
\* takes the risk level from the rounded similarity
get_detailed_report_raw_counts(self, text) ==
  LET words == words_of(text)
  IN  With(detect_plagiarism(self, text), LAMBDA detected :
        With(calculate_similarity_score(detected.self, text), LAMBDA sim :
          LET plagiarism_score == detected.ret
              risk == risk_of(round2((sim.ret * 100) \div (Unit \div Milli)))
          IN  [ret |->
                 [plagiarism_score |-> round2(plagiarism_score),
                  similarity_score |->
                     round2((sim.ret * 100) \div (Unit \div Milli)),
                  risk_level       |-> risk.level,
                  risk_color       |-> risk.color,
                  word_count       |-> Len(words),
                  character_count  |-> char_length(text),
                  unique_words     |-> Cardinality(Range(words)),
                  recommendations  |-> get_recommendations(plagiarism_score)],
               self  |-> sim.self,
               score |-> plagiarism_score,
               similarity_score |-> sim.ret]))

\* the report without its timestamp (the wall clock); score and
\* similarity_score are the locals plagiarism_score and similarity_score
get_detailed_report(self, text) ==
  LET processed_text == preprocess_text(text)
      words          == words_of(processed_text)
  IN  With(detect_plagiarism(self, text), LAMBDA detected :
        With(calculate_similarity_score(detected.self, text), LAMBDA sim :
          LET plagiarism_score == detected.ret
              risk             == risk_of(plagiarism_score)
          IN  [ret |->
                 [plagiarism_score |-> round2(plagiarism_score),
                  similarity_score |->
                     round2((sim.ret * 100) \div (Unit \div Milli)),
                  risk_level       |-> risk.level,
                  risk_color       |-> risk.color,
                  word_count       |-> Len(words),
                  character_count  |-> char_length(processed_text),
                  unique_words     |-> Cardinality(Range(words)),
                  recommendations  |-> get_recommendations(plagiarism_score)],
               self  |-> sim.self,
               score |-> plagiarism_score,
               similarity_score |-> sim.ret]))

(***************************************************************************)
(* generate_training_data and the model file.                              *)
(***************************************************************************)
original_texts ==
  <<
     "Machine learning is a subset of artificial intelligence that focuses on algorithms.",
     "The importance of data preprocessing cannot be overstated in machine learning projects.",
     "Neural networks are inspired by the biological neural networks of animal brains.",
     "Deep learning has revolutionized computer vision and natural language processing.",
     "Support vector machines are effective for classification and regression tasks.",
     "Cross-validation is essential for evaluating machine learning model performance.",
     "Feature engineering plays a crucial role in the success of machine learning models.",
     "Overfitting occurs when a model learns the training data too well.",
     "Regularization techniques help prevent overfitting in machine learning models.",
     "Ensemble methods combine multiple models to improve prediction accuracy."
  >>

plagiarized_texts ==
  <<
     "Machine learning is a part of artificial intelligence that concentrates on algorithms.",
     "The significance of data preprocessing cannot be understated in ML projects.",
     "Neural nets are inspired by the biological neural networks of animal minds.",
     "Deep learning has transformed computer vision and natural language processing.",
     "Support vector machines are useful for classification and regression problems.",
     "Cross validation is essential for evaluating machine learning model performance.",
     "Feature engineering has a crucial role in the success of ML models.",
     "Overfitting happens when a model learns the training data too well.",
     "Regularization methods help prevent overfitting in machine learning models.",
     "Ensemble techniques combine multiple models to improve prediction accuracy."
  >>

generate_training_data ==
  [texts  |-> original_texts \o plagiarized_texts,
   labels |-> [i \in 1..Len(original_texts) |-> 0]
                \o [i \in 1..Len(plagiarized_texts) |-> 1]]

\* the file at model_path: absent, a complete pickle of model_data, or the
\* partial file that open(path, 'wb') and an unfinished pickle.dump leave
NewSelf ==
  [svm_model |-> Unfitted, vectorizer |-> FreshVectorizer, reference_texts |-> <<>>]

NoFile == [kind |-> "absent", data |-> NewSelf]

PartialFile == [kind |-> "partial", data |-> NewSelf]

ArtifactFile(model_data) == [kind |-> "artifact", data |-> model_data]

\* how the write of save_model goes: "ok"; "open_error", open() raises and
\* the file is as it was; "write_error", open() has truncated the file and
\* pickle.dump stops before the end
IoOutcomes == {"ok", "open_error", "write_error"}

\* a variant whose model_data leaves the corpus out
save_model_without_corpus(self, disk, io) ==
  LET model_data == [svm_model       |-> self.svm_model,
                     vectorizer      |-> self.vectorizer,
                     reference_texts |-> <<>>]
  IN  CASE io = "ok"          -> [raised |-> FALSE, self |-> self,
                                  disk |-> ArtifactFile(model_data)]
        [] io = "open_error"  -> [raised |-> TRUE, self |-> self, disk |-> disk]
        [] io = "write_error" -> [raised |-> TRUE, self |-> self, disk |-> PartialFile]

\* a variant that catches the errors of the write
save_model_swallowing(self, disk, io) ==
  LET model_data == [svm_model       |-> self.svm_model,
                     vectorizer      |-> self.vectorizer,
                     reference_texts |-> self.reference_texts]
  IN  CASE io = "ok"          -> [raised |-> FALSE, self |-> self,
                                  disk |-> ArtifactFile(model_data)]
        [] io = "open_error"  -> [raised |-> FALSE, self |-> self, disk |-> disk]
        [] io = "write_error" -> [raised |-> FALSE, self |-> self, disk |-> PartialFile]

save_model(self, disk, io) ==
  LET model_data == [svm_model       |-> self.svm_model,
                     vectorizer      |-> self.vectorizer,
                     reference_texts |-> self.reference_texts]
  IN  CASE io = "ok"          -> [raised |-> FALSE, self |-> self,
                                  disk |-> ArtifactFile(model_data)]
        [] io = "open_error"  -> [raised |-> TRUE, self |-> self, disk |-> disk]
        [] io = "write_error" -> [raised |-> TRUE, self |-> self, disk |-> PartialFile]

\* only FileNotFoundError is caught; pickle.load of a partial file raises
\* before any field is assigned
load_model(self, disk) ==
  LET model_data == disk.data
  IN  CASE disk.kind = "absent"   -> [raised |-> FALSE, ret |-> FALSE, self |-> self]
        [] disk.kind = "artifact" ->
             [raised |-> FALSE, ret |-> TRUE,
              self |-> [self EXCEPT
                          !.svm_model       = model_data.svm_model,
                          !.vectorizer      = model_data.vectorizer,
                          !.reference_texts = model_data.reference_texts]]
        [] disk.kind = "partial"  -> [raised |-> TRUE, ret |-> FALSE, self |-> self]

\* fit: what SVC.fit yields on the training split
train_model(self, disk, fit, io) ==
  LET data     == generate_training_data
      features == [i \in DOMAIN data.texts |->
                     extract_features(preprocess_text(data.texts[i]))]
      trained  == [self EXCEPT
                     !.svm_model = fit,
                     !.reference_texts =
                        [i \in DOMAIN data.texts |-> preprocess_text(data.texts[i])]]
  IN  save_model(trained, disk, io)

\* a variant that trains whatever load_model returns
load_or_create_model_always_train(self, disk, fit, io) ==
  With(load_model(self, disk), LAMBDA loaded :
    IF loaded.raised
    THEN [raised |-> TRUE, self |-> self, disk |-> disk, trained |-> FALSE]
    ELSE With(train_model(loaded.self, disk, fit, io), LAMBDA t :
           [raised |-> t.raised, self |-> t.self, disk |-> t.disk,
            trained |-> TRUE]))

load_or_create_model(self, disk, fit, io) ==
  With(load_model(self, disk), LAMBDA loaded :
    IF loaded.raised
    THEN [raised |-> TRUE, self |-> self, disk |-> disk, trained |-> FALSE]
    ELSE IF ~loaded.ret
    THEN With(train_model(self, disk, fit, io), LAMBDA t :
           [raised |-> t.raised, self |-> t.self, disk |-> t.disk,
            trained |-> TRUE])
    ELSE [raised |-> FALSE, self |-> loaded.self, disk |-> disk,
          trained |-> FALSE])

\* a variant that looks for the text as given in the corpus
add_reference_text_raw_dedup(self, disk, text, io) ==
  LET processed_text == preprocess_text(text)
  IN  IF text \notin Range(self.reference_texts)
      THEN save_model([self EXCEPT !.reference_texts = Append(@, processed_text)],
                      disk, io)
      ELSE [raised |-> FALSE, self |-> self, disk |-> disk]

\* a variant that appends without writing the file
add_reference_text_unsaved(self, disk, text, io) ==
  LET processed_text == preprocess_text(text)
  IN  IF processed_text \notin Range(self.reference_texts)
      THEN [raised |-> FALSE,
            self |-> [self EXCEPT !.reference_texts = Append(@, processed_text)],
            disk |-> disk]
      ELSE [raised |-> FALSE, self |-> self, disk |-> disk]

add_reference_text(self, disk, text, io) ==
  LET processed_text == preprocess_text(text)
  IN  IF processed_text \notin Range(self.reference_texts)
      THEN save_model([self EXCEPT !.reference_texts = Append(@, processed_text)],
                      disk, io)
      ELSE [raised |-> FALSE, self |-> self, disk |-> disk]

(***************************************************************************)
(* src/file_processor.py: the check of the name of an uploaded file.       *)
(* FileNameTab gives the characters of the file names the clients send.    *)
(***************************************************************************)
FileNameTab ==
  << <<"", <<>>>>,
     <<"invalid.exe", <<"i", "n", "v", "a", "l", "i", "d", ".", "e", "x", "e">>>>,
     <<"README", <<"R", "E", "A", "D", "M", "E">>>>,
     <<"Report.PDF", <<"R", "e", "p", "o", "r", "t", ".", "P", "D", "F">>>>,
     <<"notes.v2.txt", <<"n", "o", "t", "e", "s", ".", "v", "2", ".", "t", "x", "t">>>> >>

FileNames == {FileNameTab[i][1] : i \in DOMAIN FileNameTab}

NameChars(filename) ==
  FileNameTab[CHOOSE i \in DOMAIN FileNameTab : FileNameTab[i][1] = filename][2]

allowed_extensions ==
  {<<"t", "x", "t">>,
   <<"p", "d", "f">>,
   <<"d", "o", "c">>,
   <<"d", "o", "c", "x">>,
   <<"p", "y">>,
   <<"j", "a", "v", "a">>,
   <<"c", "p", "p">>,
   <<"c">>,
   <<"j", "s">>,
   <<"h", "t", "m", "l">>,
   <<"c", "s", "s">>}

\* filename.rsplit('.', 1)[1]: what follows the last '.'
rsplit_last(cs) ==
  SubSeq(cs, SetMax({i \in DOMAIN cs : cs[i] = "."}) + 1, Len(cs))

\* a variant that splits at the first '.'
allowed_file_first_dot(filename) ==
  LET cs == NameChars(filename)
  IN  /\ "." \in Range(cs)
      /\ lower(SubSeq(cs, SetMin({i \in DOMAIN cs : cs[i] = "."}) + 1, Len(cs)))
            \in allowed_extensions

allowed_file(filename) ==
  LET cs == NameChars(filename)
  IN  /\ "." \in Range(cs)
      /\ lower(rsplit_last(cs)) \in allowed_extensions

(***************************************************************************)
(* src/database_manager.py: the users and their authentication.            *)
(***************************************************************************)
\* generate_password_hash(password), which check_password_hash accepts for
\* that password only
generate_password_hash(password) == [hash_of |-> password]

check_password_hash(password_hash, password) == password_hash.hash_of = password

\* the users table after create_default_users
Users ==
  {[id |-> 1, username |-> "admin",
    password_hash |-> generate_password_hash("admin123"),
    full_name |-> "System Administrator", user_type |-> "lecturer"],
   [id |-> 2, username |-> "student1",
    password_hash |-> generate_password_hash("student123"),
    full_name |-> "John Doe", user_type |-> "student"]}

NoUser ==
  [id |-> 0, username |-> "", password_hash |-> generate_password_hash(""),
   full_name |-> "", user_type |-> ""]

\* SELECT * FROM users WHERE username = ? AND user_type = ?, then the check
\* of the password; found FALSE stands for None
authenticate_user(username, password, user_type) ==
  LET rows == {u \in Users : u.username = username /\ u.user_type = user_type}
  IN  IF rows # {} /\ check_password_hash((CHOOSE u \in rows : TRUE).password_hash,
                                          password)
      THEN [found |-> TRUE, user |-> CHOOSE u \in rows : TRUE]
      ELSE [found |-> FALSE, user |-> NoUser]

(***************************************************************************)
(* src/app.py: the session of a request.  Flask keeps the session in a     *)
(* cookie that it signs with app.secret_key and hands to the client; the   *)
(* server keeps no record of it.  keys are the keys the session holds.     *)
(***************************************************************************)
EmptySession ==
  [keys |-> {}, user_id |-> 0, username |-> "", user_type |-> "", full_name |-> ""]

\* the session after the four assignments of login
SessionOf(user) ==
  [keys |-> {"user_id", "username", "user_type", "full_name"},
   user_id |-> user.id, username |-> user.username,
   user_type |-> user.user_type, full_name |-> user.full_name]

\* 'user_id' not in session or session['user_type'] != user_type
Refused(session, user_type) ==
  "user_id" \notin session.keys \/ session.user_type # user_type

NoRequest ==
  [route |-> "none", session |-> EmptySession, touched |-> {},
   filename |-> "", checked |-> FALSE, allowed |-> FALSE]

\* cookie: the session cookie the browser holds; issued: the session
\* cookies the server has signed and sent; logged_in: a login has succeeded
\* and no logout has followed; authenticated: the users authenticate_user
\* has returned, each with the user_type it was asked for; assignments: how
\* many rows the assignments table holds; submissions: the submissions
\* table; uploads: the files saved in the upload folder; request: the last
\* request
NewApp ==
  [cookie |-> EmptySession, issued |-> {}, logged_in |-> FALSE,
   authenticated |-> {}, assignments |-> 0, submissions |-> <<>>,
   uploads |-> {}, request |-> NoRequest]

(***************************************************************************)
(* src/admin_tools.py: AdminTools holds a PlagiarismDetector of its own,   *)
(* on the same model_path.                                                 *)
(***************************************************************************)
NoAdminTools == [constructed |-> FALSE, plagiarism_detector |-> NewSelf]

(***************************************************************************)
(* The state: one detector object, the model file, and the last call.      *)
(***************************************************************************)
VARIABLES
  constructed,      \* whether the process holds a detector (__init__ returned)
  svm_model,        \* self.svm_model
  vectorizer,       \* self.vectorizer
  reference_texts,  \* self.reference_texts
  disk,             \* the file at self.model_path
  svc_fit,          \* the classifier SVC.fit yields on the training set
  last,             \* the last call: its method, argument and outcome
  probe,            \* a score returned since the artifact in memory was last assigned
  write_failures,   \* how many writes of the model file have failed
  threads,          \* the request threads that share the detector
  admin_tools,      \* the detector of a second process on the same model file
  app               \* the web application: its data, the cookies, the last request

vars == <<constructed, svm_model, vectorizer, reference_texts, disk, svc_fit,
          last, probe, write_failures, threads, admin_tools, app>>

\* the texts the callers pass to the scoring calls
Texts ==
  {"",
   "   Hello   ",
   "#-#-#-#-#-#",
   "The quick brown fox jumps over the lazy dog.",
   " THE quick  brown fox jumps over the lazy dog. ",
   "Machine learning is a subset of artificial intelligence that focuses on algorithms.",
   "Machine learning focuses on algorithms."}

\* the texts the callers pass to add_reference_text; the corpus is bounded
\* by their normalized forms, which add_reference_text appends once each
ReferenceTexts ==
  {
   "The quick brown fox jumps over the lazy dog.",
   " THE quick  brown fox jumps over the lazy dog. ",
   "Machine learning is a subset of artificial intelligence that focuses on algorithms."}

\* at most MaxWriteFailures writes of the model file fail
MaxWriteFailures == 1

self ==
  [svm_model |-> svm_model, vectorizer |-> vectorizer,
   reference_texts |-> reference_texts]

SetSelf(s) ==
  /\ svm_model' = s.svm_model
  /\ vectorizer' = s.vectorizer
  /\ reference_texts' = s.reference_texts

NoReport ==
  [plagiarism_score |-> 0, similarity_score |-> 0, risk_level |-> "",
   risk_color |-> "", word_count |-> 0, character_count |-> 0,
   unique_words |-> 0, recommendations |-> <<>>]

\* a call of method op on text: raised, whether it raised; flag, what a
\* load returned, whether a construction trained or whether an
\* add_reference_text appended; by, the process that made the call; the
\* rest for the scoring calls
Call(op, text, raised, flag) ==
  [op |-> op, text |-> text, raised |-> raised, flag |-> flag, by |-> "app",
   score |-> 0, svm_probability |-> 0, similarity_score |-> 0,
   calls |-> {}, report |-> NoReport]

NoProbe == [set |-> FALSE, text |-> "", score |-> 0, others |-> FALSE]

IoChoices == IF write_failures < MaxWriteFailures THEN IoOutcomes ELSE {"ok"}

\* the threads of the server, one request each
Threads == {"t1", "t2"}

\* a thread: pc, where it is in its call; op and text, the call; all_texts
\* and svm_probability, its locals; ret, what the call returned
IdleThread ==
  [pc |-> "idle", op |-> "none", text |-> "", all_texts |-> <<>>,
   svm_probability |-> 0, ret |-> 0]

Init ==
  /\ constructed = FALSE
  /\ svm_model = NewSelf.svm_model
  /\ vectorizer = NewSelf.vectorizer
  /\ reference_texts = NewSelf.reference_texts
  /\ disk = NoFile
  /\ svc_fit \in FitOutcomes
  /\ last = Call("none", "", FALSE, FALSE)
  /\ probe = NoProbe
  /\ write_failures = 0
  /\ threads = [t \in Threads |-> IdleThread]
  /\ admin_tools = NoAdminTools
  /\ app = NewApp

\* PlagiarismDetector(): __init__ ends with load_or_create_model; when that
\* raises there is no detector
Construct ==
  /\ ~constructed
  /\ \E io \in IoChoices :
       \E r \in {load_or_create_model(NewSelf, disk, svc_fit, io)} :
           /\ constructed' = ~r.raised
           /\ SetSelf(IF r.raised THEN NewSelf ELSE r.self)
           /\ disk' = r.disk
           /\ write_failures' =
                IF r.raised /\ r.trained THEN write_failures + 1 ELSE write_failures
           /\ last' = Call("__init__", "", r.raised, r.trained)
  /\ probe' = NoProbe
  /\ UNCHANGED svc_fit
  /\ UNCHANGED <<threads, admin_tools, app>>

\* the process ends: the detector is gone, the file stays
Exit ==
  /\ constructed
  /\ constructed' = FALSE
  /\ SetSelf(NewSelf)
  /\ last' = Call("exit", "", FALSE, FALSE)
  /\ probe' = NoProbe
  /\ UNCHANGED <<disk, svc_fit, write_failures>>
  /\ UNCHANGED <<threads, admin_tools, app>>

\* a call of detect_plagiarism
DetectCall(text) ==
  /\ constructed
  /\ \E r \in {detect_plagiarism(self, text)} :
         /\ SetSelf(r.self)
         /\ last' = [Call("detect_plagiarism", text, FALSE, FALSE) EXCEPT
                       !.score = r.ret,
                       !.svm_probability = r.svm_probability,
                       !.similarity_score = r.similarity_score,
                       !.calls = r.calls]
  /\ UNCHANGED <<constructed, disk, svc_fit, write_failures>>
  /\ UNCHANGED <<threads, admin_tools>>

\* others: a different text has been scored since the kept score
Seen(text) ==
  IF probe.set /\ text # probe.text THEN [probe EXCEPT !.others = TRUE] ELSE probe

Detect(text) == DetectCall(text) /\ probe' = Seen(text) /\ UNCHANGED app

\* the same call, its score kept in probe for the later calls to be held against
DetectAndKeep(text) ==
  /\ ~probe.set
  /\ DetectCall(text)
  /\ probe' = [set |-> TRUE, text |-> text, score |-> last'.score,
               others |-> FALSE]
  /\ UNCHANGED app

\* a call of get_detailed_report
ReportCall(text) ==
  /\ constructed
  /\ \E r \in {get_detailed_report(self, text)} :
         /\ SetSelf(r.self)
         /\ last' = [Call("get_detailed_report", text, FALSE, FALSE) EXCEPT
                       !.score = r.score,
                       !.similarity_score = r.similarity_score,
                       !.report = r.ret]
  /\ probe' = Seen(text)
  /\ UNCHANGED <<constructed, disk, svc_fit, write_failures>>
  /\ UNCHANGED <<threads, admin_tools>>

Report(text) == ReportCall(text) /\ UNCHANGED app

AddReference(text) ==
  /\ constructed
  /\ \E io \in IoChoices :
       \E r \in {add_reference_text(self, disk, text, io)} :
           /\ SetSelf(r.self)
           /\ disk' = r.disk
           /\ write_failures' =
                IF r.raised THEN write_failures + 1 ELSE write_failures
           /\ last' = Call("add_reference_text", text, r.raised,
                            r.self.reference_texts # reference_texts)
  /\ probe' = NoProbe
  /\ UNCHANGED <<constructed, svc_fit>>
  /\ UNCHANGED <<threads, admin_tools, app>>

Train ==
  /\ constructed
  /\ \E io \in IoChoices :
       \E r \in {train_model(self, disk, svc_fit, io)} :
           /\ SetSelf(r.self)
           /\ disk' = r.disk
           /\ write_failures' =
                IF r.raised THEN write_failures + 1 ELSE write_failures
           /\ last' = Call("train_model", "", r.raised, FALSE)
  /\ probe' = NoProbe
  /\ UNCHANGED <<constructed, svc_fit>>
  /\ UNCHANGED <<threads, admin_tools, app>>

Save ==
  /\ constructed
  /\ \E io \in IoChoices :
       \E r \in {save_model(self, disk, io)} :
           /\ disk' = r.disk
           /\ write_failures' =
                IF r.raised THEN write_failures + 1 ELSE write_failures
           /\ last' = Call("save_model", "", r.raised, FALSE)
  /\ UNCHANGED <<constructed, svm_model, vectorizer, reference_texts, svc_fit,
                 probe>>
  /\ UNCHANGED <<threads, admin_tools, app>>

Load ==
  /\ constructed
  /\ \E r \in {load_model(self, disk)} :
         /\ SetSelf(r.self)
         /\ last' = Call("load_model", "", r.raised, r.ret)
  /\ probe' = NoProbe
  /\ UNCHANGED <<constructed, disk, svc_fit, write_failures>>
  /\ UNCHANGED <<threads, admin_tools, app>>

Next ==
  \/ Construct
  \/ Exit
  \/ \E text \in Texts : Detect(text)
  \/ \E text \in Texts : Report(text)
  \/ \E text \in ReferenceTexts : AddReference(text)
  \/ Train
  \/ Save
  \/ Load

Spec == Init /\ [][Next]_vars

\* the same, with a score kept for comparison
NextKeeping == Next \/ \E text \in Texts : DetectAndKeep(text)

SpecKeeping == Init /\ [][NextKeeping]_vars

(***************************************************************************)
(* The same detector on texts that normalization treats less kindly, in    *)
(* one process and with every write of the file succeeding.                *)
(***************************************************************************)
WideTexts ==
  {"The quick brown fox jumps over the lazy dog.",
   "#-#-#-#-#-#",
   "Tom & Jerry"}

NextWide ==
  \/ Construct /\ write_failures' = write_failures
  \/ \E text \in WideTexts : Detect(text)
  \/ \E text \in WideTexts : Report(text)
  \/ \E text \in WideTexts : AddReference(text) /\ write_failures' = write_failures

SpecWide == Init /\ [][NextWide]_vars

(***************************************************************************)
(* Concurrent requests.  The server shares one detector among its request  *)
(* threads; there is no lock in the class.  A thread runs one call,        *)
(* detect_plagiarism or add_reference_text, in steps between which the     *)
(* interpreter may switch threads.  Every write of the file succeeds.      *)
(***************************************************************************)
ThreadAddTexts ==
  {"The quick brown fox jumps over the lazy dog.",
   "Machine learning is a subset of artificial intelligence that focuses on algorithms."}

ThreadScoreTexts ==
  {"   Hello   ",
   "The quick brown fox jumps over the lazy dog.",
   "Machine learning focuses on algorithms."}

ThreadStep(t, next) ==
  /\ threads' = [threads EXCEPT ![t] = next]
  /\ UNCHANGED <<constructed, svc_fit, last, probe, write_failures, admin_tools, app>>

\* add_reference_text up to the membership test
AddStart(t, text) ==
  /\ constructed
  /\ threads[t].pc = "idle"
  /\ ThreadStep(t, [IdleThread EXCEPT
                      !.op = "add_reference_text",
                      !.text = text,
                      !.pc = IF preprocess_text(text) \notin Range(reference_texts)
                             THEN "append" ELSE "done"])
  /\ UNCHANGED <<svm_model, vectorizer, reference_texts, disk>>

\* self.reference_texts.append(processed_text)
AddAppend(t) ==
  /\ threads[t].pc = "append"
  /\ reference_texts' = Append(reference_texts, preprocess_text(threads[t].text))
  /\ ThreadStep(t, [threads[t] EXCEPT !.pc = "open"])
  /\ UNCHANGED <<svm_model, vectorizer, disk>>

\* save_model: open(self.model_path, 'wb') truncates the file
SaveOpen(t) ==
  /\ threads[t].pc = "open"
  /\ disk' = PartialFile
  /\ ThreadStep(t, [threads[t] EXCEPT !.pc = "dump"])
  /\ UNCHANGED <<svm_model, vectorizer, reference_texts>>

\* save_model: pickle.dump of the fields as they are now, and the close;
\* with a second thread writing the same file the bytes of the two may mix
SaveDump(t) ==
  /\ threads[t].pc = "dump"
  /\ \E r \in {save_model(self, disk, "ok")} :
       disk' \in IF \E u \in Threads \ {t} : threads[u].pc = "dump"
                THEN {r.disk, PartialFile}
                ELSE {r.disk}
  /\ ThreadStep(t, [threads[t] EXCEPT !.pc = "done"])
  /\ UNCHANGED <<svm_model, vectorizer, reference_texts>>

\* detect_plagiarism up to the call of calculate_similarity_score
DetectStart(t, text) ==
  /\ constructed
  /\ threads[t].pc = "idle"
  /\ \E proba \in {predict_proba(svm_model,
                                  extract_features(preprocess_text(text)))} :
       ThreadStep(t, [IdleThread EXCEPT
                        !.op = "detect_plagiarism",
                        !.text = text,
                        !.svm_probability =
                           IF proba.raised \/ text = ""
                                \/ stripped_length(text) < MinTextLength
                           THEN 0 ELSE proba.ret,
                        !.pc = IF text = "" \/ stripped_length(text) < MinTextLength
                               THEN "done" ELSE "fit"])
  /\ UNCHANGED <<svm_model, vectorizer, reference_texts, disk>>

\* the rest of detect_plagiarism, from the similarity
Finish(t, similarity_score) ==
  [threads[t] EXCEPT
     !.pc = "done",
     !.ret = Min(((threads[t].svm_probability * SvmWeight
                     + similarity_score * SimilarityWeight) * 100)
                    \div ((10 * Unit) \div Milli),
                 ScoreCap * Milli)]

\* calculate_similarity_score up to the first half of fit_transform: the
\* vocabulary and the idf weights of all_texts are stored in self.vectorizer
SimFit(t) ==
  /\ threads[t].pc = "fit"
  /\ \E all_texts \in {Append(reference_texts, preprocess_text(threads[t].text))} :
       \E fit \in {fit_transform(vectorizer, all_texts)} :
         /\ vectorizer' = fit.vectorizer
         /\ ThreadStep(t, IF reference_texts = <<>> \/ fit.raised
                          THEN Finish(t, 0)
                          ELSE [threads[t] EXCEPT !.pc = "transform",
                                                  !.all_texts = all_texts])
  /\ UNCHANGED <<svm_model, reference_texts, disk>>

\* the second half of fit_transform, which weighs the thread's own counts
\* by the idf weights in self.vectorizer, and the rest of the call; when
\* the weights are those of another thread's fit, of another vocabulary,
\* the product raises (except: 0.0) or goes through
SimTransform(t) ==
  /\ threads[t].pc = "transform"
  /\ \E similarity_score \in
         {MaxSeq(cosine_similarity(threads[t].all_texts))}
           \cup (IF vectorizer.docs = threads[t].all_texts THEN {} ELSE {0}) :
       ThreadStep(t, Finish(t, similarity_score))
  /\ UNCHANGED <<svm_model, vectorizer, reference_texts, disk>>

NextConcurrent ==
  \/ Construct /\ write_failures' = write_failures
  \/ \E t \in Threads :
       \/ \E text \in ThreadAddTexts : AddStart(t, text)
       \/ AddAppend(t)
       \/ SaveOpen(t)
       \/ SaveDump(t)
       \/ \E text \in ThreadScoreTexts : DetectStart(t, text)
       \/ SimFit(t)
       \/ SimTransform(t)

SpecConcurrent == Init /\ [][NextConcurrent]_vars

(***************************************************************************)
(* The same detector with references that are verbatim copies of what is   *)
(* scored afterwards: a bootstrap sentence, a text shorter than the guard  *)
(* of detect_plagiarism allows and a text without a word.  Every write of  *)
(* the file succeeds.                                                      *)
(***************************************************************************)
AnchorTexts ==
  {"   Hello   ",
   "#-#-#-#-#-#",
   "Machine learning is a subset of artificial intelligence that focuses on algorithms."}

NextAnchor ==
  \/ Construct /\ write_failures' = write_failures
  \/ \E text \in AnchorTexts : Detect(text)
  \/ \E text \in AnchorTexts : Report(text)
  \/ \E text \in AnchorTexts : AddReference(text) /\ write_failures' = write_failures

SpecAnchor == Init /\ [][NextAnchor]_vars

(***************************************************************************)
(* Two processes, the web application and the administration tools, each   *)
(* with a detector of its own on the one model file.  Every write of the   *)
(* file succeeds.                                                          *)
(***************************************************************************)
\* the texts each process adds to the corpus
AppReferenceTexts == {"The quick brown fox jumps over the lazy dog."}

AdminReferenceTexts == {"Tom & Jerry"}

\* AdminTools(): PlagiarismDetector() on the file as it is now
AdminConstruct ==
  /\ ~admin_tools.constructed
  /\ \E r \in {load_or_create_model(NewSelf, disk, svc_fit, "ok")} :
       /\ admin_tools' = [constructed |-> TRUE, plagiarism_detector |-> r.self]
       /\ disk' = r.disk
       /\ last' = [Call("__init__", "", r.raised, r.trained) EXCEPT
                     !.by = "admin_tools"]
  /\ UNCHANGED <<constructed, svm_model, vectorizer, reference_texts, svc_fit,
                 probe, write_failures, threads, app>>

\* add_reference_text on the detector of the administration tools
AdminAddReference(text) ==
  /\ admin_tools.constructed
  /\ \E r \in {add_reference_text(admin_tools.plagiarism_detector, disk, text, "ok")} :
       /\ admin_tools' = [admin_tools EXCEPT !.plagiarism_detector = r.self]
       /\ disk' = r.disk
       /\ last' = [Call("add_reference_text", text, r.raised,
                        r.self.reference_texts #
                          admin_tools.plagiarism_detector.reference_texts)
                     EXCEPT !.by = "admin_tools"]
  /\ UNCHANGED <<constructed, svm_model, vectorizer, reference_texts, svc_fit,
                 probe, write_failures, threads, app>>

\* train_model on the detector of the administration tools
AdminTrain ==
  /\ admin_tools.constructed
  /\ \E r \in {train_model(admin_tools.plagiarism_detector, disk, svc_fit, "ok")} :
       /\ admin_tools' = [admin_tools EXCEPT !.plagiarism_detector = r.self]
       /\ disk' = r.disk
       /\ last' = [Call("train_model", "", r.raised, FALSE) EXCEPT
                     !.by = "admin_tools"]
  /\ UNCHANGED <<constructed, svm_model, vectorizer, reference_texts, svc_fit,
                 probe, write_failures, threads, app>>

NextShared ==
  \/ Construct /\ write_failures' = write_failures
  \/ \E text \in AppReferenceTexts : AddReference(text) /\ write_failures' = write_failures
  \/ Train /\ write_failures' = write_failures
  \/ AdminConstruct
  \/ \E text \in AdminReferenceTexts : AdminAddReference(text)
  \/ AdminTrain

SpecShared == Init /\ [][NextShared]_vars

(***************************************************************************)
(* The web application, src/app.py: one client and its requests.  The      *)
(* module constructs its detector when it is loaded, before any request.   *)
(* Every write of the model file succeeds.                                 *)
(***************************************************************************)
\* how many assignments are created and how many submissions are stored
MaxAssignments == 1

MaxSubmissions == 1

\* what the login form sends
LoginNames == {"admin", "student1"}

LoginPasswords == {"admin123", "student123"}

UserTypes == {"lecturer", "student"}

Methods == {"GET", "POST"}

\* what extract_text returns for the uploaded file
SubmissionTexts == {"The quick brown fox jumps over the lazy dog."}

\* the session cookies a request can carry: the one the browser holds, or
\* one the server signed earlier, which still verifies under app.secret_key
Presentable == {app.cookie} \cup app.issued

Requested(route, session) ==
  [NoRequest EXCEPT !.route = route, !.session = session]

DetectorUnchanged ==
  UNCHANGED <<constructed, svm_model, vectorizer, reference_texts, disk,
              svc_fit, last, probe, write_failures, threads, admin_tools>>

\* POST /login
login(username, password, user_type) ==
  /\ constructed
  /\ \E session \in Presentable :
       \E r \in {authenticate_user(username, password, user_type)} :
         LET request == [Requested("login", session) EXCEPT
                           !.touched = {"database"}]
         IN  app' = IF r.found
                    THEN [app EXCEPT
                            !.cookie = SessionOf(r.user),
                            !.issued = @ \cup {SessionOf(r.user)},
                            !.logged_in = TRUE,
                            !.authenticated =
                               @ \cup {[user_id |-> r.user.id,
                                        user_type |-> user_type]},
                            !.request = request]
                    ELSE [app EXCEPT !.request = request]
  /\ DetectorUnchanged

\* GET /logout: session.clear()
logout ==
  /\ constructed
  /\ \E session \in Presentable :
       app' = [app EXCEPT !.cookie = EmptySession,
                          !.logged_in = FALSE,
                          !.request = Requested("logout", session)]
  /\ DetectorUnchanged

\* a handler that reads the database once its guard has let the request in
Reads(route, user_type) ==
  /\ constructed
  /\ \E session \in Presentable :
       app' = [app EXCEPT !.request =
                 [Requested(route, session) EXCEPT
                    !.touched = IF Refused(session, user_type) THEN {}
                                ELSE {"database"}]]
  /\ DetectorUnchanged

student_dashboard == Reads("student_dashboard", "student")

lecturer_dashboard == Reads("lecturer_dashboard", "lecturer")

view_submissions == Reads("view_submissions", "lecturer")

plagiarism_stats == Reads("plagiarism_stats", "lecturer")

create_assignment(method) ==
  /\ constructed
  /\ app.assignments < MaxAssignments
  /\ \E session \in Presentable :
       app' = IF Refused(session, "lecturer") \/ method = "GET"
              THEN [app EXCEPT !.request = Requested("create_assignment", session)]
              ELSE [app EXCEPT
                      !.assignments = @ + 1,
                      !.request = [Requested("create_assignment", session)
                                     EXCEPT !.touched = {"database"}]]
  /\ DetectorUnchanged

\* POST /grade_submission/<submission_id>
grade_submission(submission_id) ==
  /\ constructed
  /\ \E session \in Presentable :
       app' = IF Refused(session, "lecturer")
              THEN [app EXCEPT !.request = Requested("grade_submission", session)]
              ELSE [app EXCEPT
                      !.submissions =
                         [i \in DOMAIN @ |->
                            IF i = submission_id
                            THEN [@[i] EXCEPT !.graded = TRUE] ELSE @[i]],
                      !.request = [Requested("grade_submission", session)
                                     EXCEPT !.touched = {"database"}]]
  /\ DetectorUnchanged

plagiarism_report(submission_id) ==
  /\ constructed
  /\ \E session \in Presentable :
       \/ /\ Refused(session, "lecturer")
          /\ app' = [app EXCEPT !.request = Requested("plagiarism_report", session)]
          /\ DetectorUnchanged
       \/ /\ ~Refused(session, "lecturer")
          /\ submission_id \notin DOMAIN app.submissions
          /\ app' = [app EXCEPT !.request =
                       [Requested("plagiarism_report", session) EXCEPT
                          !.touched = {"database"}]]
          /\ DetectorUnchanged
       \/ /\ ~Refused(session, "lecturer")
          /\ submission_id \in DOMAIN app.submissions
          /\ ReportCall(app.submissions[submission_id].content)
          /\ app' = [app EXCEPT !.request =
                       [Requested("plagiarism_report", session) EXCEPT
                          !.touched = {"database", "detector"}]]

\* filename: the name of the uploaded file, "" when no file was selected;
\* content: the text extract_text returns for it
submit_assignment(assignment_id, method, filename, content) ==
  /\ constructed
  /\ Len(app.submissions) < MaxSubmissions
  /\ \E session \in Presentable :
       LET request == [Requested("submit_assignment", session) EXCEPT
                         !.filename = filename]
       IN
       \/ /\ Refused(session, "student")
          /\ app' = [app EXCEPT !.request = request]
          /\ DetectorUnchanged
       \/ /\ ~Refused(session, "student")
          /\ \/ assignment_id > app.assignments
             \/ method = "GET"
             \/ filename = ""
          /\ app' = [app EXCEPT !.request =
                       [request EXCEPT !.touched = {"database"}]]
          /\ DetectorUnchanged
       \/ /\ ~Refused(session, "student")
          /\ assignment_id <= app.assignments
          /\ method = "POST"
          /\ filename # ""
          /\ ~allowed_file(filename)
          /\ app' = [app EXCEPT !.request =
                       [request EXCEPT !.touched = {"database"},
                                       !.checked = TRUE,
                                       !.allowed = FALSE]]
          /\ DetectorUnchanged
       \/ /\ ~Refused(session, "student")
          /\ assignment_id <= app.assignments
          /\ method = "POST"
          /\ filename # ""
          /\ allowed_file(filename)
          /\ DetectCall(content)
          /\ probe' = Seen(content)
          /\ app' = [app EXCEPT
                       !.uploads = @ \cup {[user_id |-> session.user_id,
                                            assignment_id |-> assignment_id,
                                            given |-> filename]},
                       !.submissions =
                          Append(@, [assignment_id |-> assignment_id,
                                     student_id |-> session.user_id,
                                     given |-> filename,
                                     content |-> content,
                                     plagiarism_score |-> last'.score,
                                     graded |-> FALSE]),
                       !.request =
                          [request EXCEPT
                             !.touched = {"database", "uploads", "detector"},
                             !.checked = TRUE,
                             !.allowed = TRUE]]

NextApp ==
  \/ Construct /\ write_failures' = write_failures
  \/ \E username \in LoginNames, password \in LoginPasswords,
        user_type \in UserTypes : login(username, password, user_type)
  \/ logout
  \/ student_dashboard
  \/ lecturer_dashboard
  \/ view_submissions
  \/ plagiarism_stats
  \/ \E method \in Methods : create_assignment(method)
  \/ \E submission_id \in 1..MaxSubmissions : grade_submission(submission_id)
  \/ \E submission_id \in 1..MaxSubmissions : plagiarism_report(submission_id)
  \/ \E assignment_id \in 1..MaxAssignments, method \in Methods,
        filename \in FileNames, content \in SubmissionTexts :
          submit_assignment(assignment_id, method, filename, content)

SpecApp == Init /\ [][NextApp]_vars

(***************************************************************************)
(* Properties.                                                             *)
(***************************************************************************)
Scoring == {"detect_plagiarism", "get_detailed_report"}

IsShort(text) == text = "" \/ stripped_length(text) < MinTextLength

\* C1: detect_plagiarism returns a score within [0, 100], whatever the
\* text, the classifier and the reference corpus are
ScoreWithinRange ==
  last.op = "detect_plagiarism" =>
    /\ last.score >= 0
    /\ last.score <= ScoreCap * Milli

\* a score of a text that went through the classifier and the similarity
\* scorer, the classifier's share below the similarity's
ScoreWithinRangeReached ==
  /\ last.op = "detect_plagiarism"
  /\ last.calls # {}
  /\ last.svm_probability * SvmWeight < last.similarity_score * SimilarityWeight
  /\ last.score > 0

\* C2: on an empty text or one whose trimmed length is below 10,
\* detect_plagiarism returns 0.0 without going through the classifier or
\* the similarity scorer, and leaves the detector and the model file as
\* they were
ShortTextScoresZero ==
  [][(last'.op = "detect_plagiarism" /\ IsShort(last'.text)) =>
       /\ last'.score = 0
       /\ last'.calls = {}
       /\ UNCHANGED <<svm_model, vectorizer, reference_texts, disk>>]_vars

\* a text of more than 10 characters, 5 of them after trimming, scored by a
\* detector that holds a trained classifier and a corpus
ShortTextScoresZeroReached ==
  /\ last.op = "detect_plagiarism"
  /\ last.text = "   Hello   "
  /\ char_length(last.text) >= MinTextLength
  /\ svm_model.fitted
  /\ reference_texts # <<>>
  /\ last.score = 0

\* p: the classifier's probability for the features of the text, 0.0 when
\* inference fails
ClassifierProbability(text) ==
  LET proba == predict_proba(svm_model, extract_features(preprocess_text(text)))
  IN  IF proba.raised THEN 0 ELSE proba.ret

\* s: the similarity of the text against the corpus held now
CorpusSimilarity(text) == calculate_similarity_score(self, text).ret

Clamp(x, lo, hi) == IF x < lo THEN lo ELSE IF x > hi THEN hi ELSE x

\* C3: for a text whose trimmed length is at least 10 the score is
\* clamp(100 * (0.6 * p + 0.4 * s), 0, 100)
ScoreIsWeightedSum ==
  (last.op = "detect_plagiarism" /\ ~IsShort(last.text)) =>
    last.score =
      Clamp(((SvmWeight * ClassifierProbability(last.text)
                + SimilarityWeight * CorpusSimilarity(last.text)) * 100)
               \div ((10 * Unit) \div Milli),
            0, ScoreCap * Milli)

\* a score where p and s are both present and differ
ScoreIsWeightedSumReached ==
  /\ last.op = "detect_plagiarism"
  /\ ~IsShort(last.text)
  /\ last.svm_probability > 0
  /\ last.similarity_score > 0
  /\ last.similarity_score < Unit
  /\ last.svm_probability # last.similarity_score

RiskLevels == <<"Low", "Medium", "High", "Very High">>

BucketFloors == <<0, LowBelow, MediumBelow, HighBelow>>

\* the bucket of a score: [0,15) 1, [15,30) 2, [30,50) 3, [50,100] 4
Bucket(score) ==
  Cardinality({b \in DOMAIN BucketFloors : score >= BucketFloors[b] * Milli})

\* C4: the report's risk_level is the bucket of the score at the thresholds
\* 15/30/50, and its recommendations are the list of that bucket
ReportBuckets ==
  last.op = "get_detailed_report" =>
    /\ last.report.risk_level = RiskLevels[Bucket(last.score)]
    /\ last.report.recommendations =
         get_recommendations(BucketFloors[Bucket(last.score)] * Milli)

\* a report of a score of exactly 15, the first of the Medium bucket
ReportBucketsReached ==
  /\ last.op = "get_detailed_report"
  /\ last.score = LowBelow * Milli
  /\ last.report.risk_level = "Medium"

\* C5: a detect_plagiarism or get_detailed_report call leaves the
\* classifier, the vectorizer, the corpus and the model file unchanged
ScoringIsReadOnly ==
  [][last'.op \in Scoring =>
       UNCHANGED <<svm_model, vectorizer, reference_texts, disk>>]_vars

\* C6: two detect_plagiarism calls on the same text with no
\* add_reference_text or train_model between them return the same score,
\* whatever was scored or reported in between
RepeatedScoreIsTheSame ==
  (probe.set /\ last.op = "detect_plagiarism" /\ last.text = probe.text) =>
    last.score = probe.score

\* the text scored again after other texts were scored or reported
RepeatedScoreIsTheSameReached ==
  /\ probe.set
  /\ probe.others
  /\ last.op = "detect_plagiarism"
  /\ last.text = probe.text
  /\ last.similarity_score > 0
  /\ last.similarity_score < Unit

\* C7: the corpus holds no two equal entries, and add_reference_text of a
\* text whose normalized form the corpus holds leaves the corpus as it is
CorpusHasNoDuplicates ==
  /\ \A i, j \in DOMAIN reference_texts :
       reference_texts[i] = reference_texts[j] => i = j
  /\ (last.op = "add_reference_text" /\ ~last.flag) =>
       preprocess_text(last.text) \in Range(reference_texts)

\* add_reference_text of a second spelling of a text the corpus holds,
\* after which the corpus is what it was
CorpusHasNoDuplicatesReached ==
  /\ last.op = "add_reference_text"
  /\ ~last.flag
  /\ last.text # preprocess_text(last.text)
  /\ Len(reference_texts) > Len(original_texts) + Len(plagiarized_texts)

IsPrefix(s, t) == Len(s) <= Len(t) /\ SubSeq(t, 1, Len(s)) = s

\* C8: once the detector exists, every corpus entry stays at its position
\* and the corpus changes only by add_reference_text appending one entry
\* (steps without a failed write)
CorpusIsAppendOnly ==
  [][(constructed /\ constructed' /\ write_failures' = 0) =>
       /\ IsPrefix(reference_texts, reference_texts')
       /\ reference_texts' # reference_texts =>
            /\ last'.op = "add_reference_text"
            /\ Len(reference_texts') = Len(reference_texts) + 1]_vars

\* C9: when train_model or add_reference_text has returned and no write has
\* failed, the classifier and the corpus in the model file are those in
\* memory
FileMatchesMemory ==
  (/\ \/ last.op \in {"train_model", "add_reference_text"}
      \/ last.op = "__init__" /\ last.flag
   /\ ~last.raised
   /\ write_failures = 0) =>
    /\ disk.kind = "artifact"
    /\ disk.data.svm_model = svm_model
    /\ disk.data.reference_texts = reference_texts

\* add_reference_text has appended an entry and returned
FileMatchesMemoryReached ==
  /\ last.op = "add_reference_text"
  /\ last.flag
  /\ ~last.raised
  /\ write_failures = 0
  /\ disk.kind = "artifact"

\* C10: the model file is never partial, whatever happens during a write,
\* and load_model of it never raises
SaveIsAtomic ==
  /\ disk.kind # "partial"
  /\ last.op = "load_model" => ~last.raised

\* the corpus train_model assigns
BootstrapCorpus ==
  [i \in DOMAIN generate_training_data.texts |->
     preprocess_text(generate_training_data.texts[i])]

\* C11: a construction trains exactly when there is no model file; having
\* trained it has saved, so a constructed detector has a model file; a
\* file that is there is loaded as it is and not written
ConstructionTrainsIffNoFile ==
  [][last'.op = "__init__" =>
       /\ last'.flag <=> disk.kind = "absent"
       /\ ~last'.raised => disk'.kind = "artifact"
       /\ (disk.kind = "absent" /\ ~last'.raised) =>
            /\ reference_texts' = BootstrapCorpus
            /\ svm_model' = svc_fit
            /\ disk'.data.reference_texts = BootstrapCorpus
            /\ disk'.data.svm_model = svc_fit
       /\ disk.kind = "artifact" =>
            /\ ~last'.raised
            /\ disk' = disk
            /\ svm_model' = disk.data.svm_model
            /\ reference_texts' = disk.data.reference_texts]_vars

\* a construction that found a file holding an added reference and loaded it
ConstructionTrainsIffNoFileReached ==
  /\ last.op = "__init__"
  /\ ~last.flag
  /\ constructed
  /\ Len(reference_texts) > Len(BootstrapCorpus)

\* C12: save_model writes the classifier and the corpus held in memory and
\* leaves them in memory; load_model, in the same detector or at the
\* construction of a new one, assigns what the file holds; so a load after
\* a save gives the same classifier and corpus, and the same score for
\* every text
SaveLoadRoundTrip ==
  [][/\ (last'.op = "save_model" /\ ~last'.raised) =>
          /\ disk'.kind = "artifact"
          /\ disk'.data.svm_model = svm_model
          /\ disk'.data.reference_texts = reference_texts
          /\ svm_model' = svm_model
          /\ reference_texts' = reference_texts
     /\ (\/ last'.op = "load_model" /\ last'.flag
         \/ last'.op = "__init__" /\ disk.kind = "artifact") =>
          /\ svm_model' = disk.data.svm_model
          /\ reference_texts' = disk.data.reference_texts
          /\ disk' = disk
     /\ (last.op = "save_model" /\ ~last.raised /\ last'.op = "load_model") =>
          /\ last'.flag
          /\ svm_model' = svm_model
          /\ reference_texts' = reference_texts
          /\ \A text \in Texts :
               detect_plagiarism(self', text).ret = detect_plagiarism(self, text).ret
    ]_vars

\* load_model has returned True with a file that holds an added reference
\* and a vectorizer that a scoring call had fitted
SaveLoadRoundTripReached ==
  /\ last.op = "load_model"
  /\ last.flag
  /\ Len(reference_texts) > Len(BootstrapCorpus)
  /\ vectorizer.fitted
  /\ disk.data.vectorizer = vectorizer


\* C13: a write of the model file that fails during train_model or
\* add_reference_text raises to the caller: neither returns normally having
\* changed the classifier or the corpus in memory without the file holding
\* them
WriteFailureSurfaces ==
  [][last'.op \in {"train_model", "add_reference_text"} =>
       /\ (disk' # disk /\ disk'.kind # "artifact") => last'.raised
       /\ ~last'.raised =>
            \/ /\ disk' = disk
               /\ svm_model' = svm_model
               /\ reference_texts' = reference_texts
            \/ /\ disk'.kind = "artifact"
               /\ disk'.data.svm_model = svm_model'
               /\ disk'.data.reference_texts = reference_texts']_vars

\* add_reference_text has appended, the write has stopped midway, and the
\* call has raised
WriteFailureSurfacesReached ==
  /\ last.op = "add_reference_text"
  /\ last.flag
  /\ last.raised
  /\ disk.kind = "partial"

\* an empty or near-empty text: short as given, or empty once normalized
Degenerate(text) == IsShort(text) \/ preprocess_text(text) = ""

InferenceFailureScoresZero ==
  [][(/\ last'.op = "detect_plagiarism"
      /\ ~IsShort(last'.text)
      /\ predict_proba(svm_model,
                       extract_features(preprocess_text(last'.text))).raised) =>
       /\ last'.svm_probability = 0
       /\ last'.score =
            (last'.similarity_score * SimilarityWeight * 100)
               \div ((10 * Unit) \div Milli)
       /\ last'.score <= SimilarityWeight * 10 * Milli
       /\ last'.similarity_score =
            calculate_similarity_score(self, last'.text).ret
       /\ vectorizer' = calculate_similarity_score(self, last'.text).self.vectorizer
       /\ UNCHANGED <<svm_model, reference_texts, disk>>]_vars

\* a score of a text whose feature vector holds NaN, by a classifier that
\* says 1.0 of every feature vector it accepts
InferenceFailureScoresZeroReached ==
  /\ last.op = "detect_plagiarism"
  /\ last.calls # {}
  /\ extract_features(preprocess_text(last.text)).avg_word_length.nan
  /\ svm_model.fitted
  /\ svm_model.cut = 0
  /\ svm_model.above = Unit
  /\ last.svm_probability = 0

\* C19: whenever detect_plagiarism goes to the classifier, the normalized
\* text has a word, so that avg_word_length is a number
GuardKeepsNaNFromClassifier ==
  (last.op = "detect_plagiarism" /\ "classifier" \in last.calls) =>
    /\ extract_features(preprocess_text(last.text)).word_count > 0
    /\ ~extract_features(preprocess_text(last.text)).avg_word_length.nan

\* the text of the last scoring call is an entry of the corpus
ScoredTextInCorpus ==
  /\ \/ last.op = "detect_plagiarism" /\ last.calls # {}
     \/ last.op = "get_detailed_report"
  /\ preprocess_text(last.text) \in Range(reference_texts)

\* the similarity of the last scoring call is 1.0
SimilarityIsOne ==
  /\ last.op = "detect_plagiarism" => last.similarity_score = Unit
  /\ last.op = "get_detailed_report" =>
       last.report.similarity_score = ScoreCap * Milli

\* C16, as stated: the similarity computed for a text that
\* add_reference_text has put in the corpus is 1.0
ExactMatchScoresOne == ScoredTextInCorpus => SimilarityIsOne

\* C16, amended: the similarity computed for a text in the corpus whose
\* normalized form has at least one term is 1.0
ExactMatchWithTermsScoresOne ==
  (ScoredTextInCorpus /\ has_terms(preprocess_text(last.text))) => SimilarityIsOne

\* the fox sentence scored after it was added: an exact match of the last
\* entry of a corpus of 21 or more
ExactMatchWithTermsScoresOneReached ==
  /\ last.op = "detect_plagiarism"
  /\ last.text = "The quick brown fox jumps over the lazy dog."
  /\ Len(reference_texts) > Len(BootstrapCorpus)
  /\ preprocess_text(last.text) \in Range(reference_texts)
  /\ last.similarity_score = Unit

\* the canonical form: no blank at either end, no two blanks in a row, no
\* blank other than the space, only word characters, spaces and .,!?;:,
\* and no upper-case letter
Canonical(cs) ==
  /\ cs # <<>> => (cs[1] \notin Whitespace /\ cs[Len(cs)] \notin Whitespace)
  /\ \A i \in 1..(Len(cs) - 1) :
       ~(cs[i] \in Whitespace /\ cs[i + 1] \in Whitespace)
  /\ \A i \in DOMAIN cs :
       /\ cs[i] \in WordChars \cup {" "} \cup Punctuation
       /\ cs[i] \notin Range(UpperCase)

\* C20: what preprocess_text returns is in canonical form and is its own
\* normal form (every corpus entry is a value preprocess_text returned)
NormalFormIsCanonical ==
  \A i \in DOMAIN reference_texts :
    /\ Canonical(Chars(reference_texts[i]))
    /\ preprocess_text(reference_texts[i]) = reference_texts[i]

AllThreadsDone == \A t \in Threads : threads[t].pc \in {"idle", "done"}

\* C14: when the concurrent add_reference_text calls have returned, the
\* corpus and the file are those of the calls run one after the other: no
\* entry twice, and the file a complete artifact that holds the corpus in
\* memory
UpdatesAreSerialized ==
  (constructed /\ AllThreadsDone) =>
    /\ \A i, j \in DOMAIN reference_texts :
         reference_texts[i] = reference_texts[j] => i = j
    /\ disk.kind = "artifact"
    /\ disk.data.reference_texts = reference_texts

\* C15: a detect_plagiarism call that ran while only scoring calls ran
\* returns what it returns alone on the same classifier and corpus
ConcurrentScoresAsAlone ==
  \A t \in Threads :
    (/\ threads[t].op = "detect_plagiarism"
     /\ threads[t].pc = "done"
     /\ \A u \in Threads : threads[u].op # "add_reference_text"
     /\ reference_texts = BootstrapCorpus) =>
      threads[t].ret = detect_plagiarism(self, threads[t].text).ret

\* the score and the risk level of the last scoring call are those of a
\* verbatim copy: at least 40, "High" or "Very High"
AnchoredScore ==
  /\ last.score >= SimilarityWeight * 10 * Milli
  /\ last.op = "get_detailed_report" =>
       last.report.risk_level \in {"High", "Very High"}

\* the last call scored a text whose normalized form the corpus holds
ScoredCopyOfReference ==
  /\ last.op \in Scoring
  /\ preprocess_text(last.text) \in Range(reference_texts)

\* C21, as stated: a text whose normalized form is an entry of the corpus
\* scores at least 40 and is reported "High" or "Very High", whatever the
\* classifier returns
VerbatimCopyIsAnchored == ScoredCopyOfReference => AnchoredScore

\* C21, amended: the same for the texts whose trimmed length is at least 10
\* and whose normalized form has at least one term
VerbatimCopyWithTermsIsAnchored ==
  (/\ ScoredCopyOfReference
   /\ ~IsShort(last.text)
   /\ has_terms(preprocess_text(last.text))) => AnchoredScore

\* the bootstrap sentence reported by a detector whose classifier returns
\* 0.0: the score is the 40 of the similarity alone
VerbatimCopyWithTermsIsAnchoredReached ==
  /\ last.op = "get_detailed_report"
  /\ last.text =
       "Machine learning is a subset of artificial intelligence that focuses on algorithms."
  /\ preprocess_text(last.text) \in Range(reference_texts)
  /\ predict_proba(svm_model, extract_features(preprocess_text(last.text))).ret = 0
  /\ last.score = SimilarityWeight * 10 * Milli
  /\ last.report.risk_level = "High"

\* C22: the report's plagiarism_score is what detect_plagiarism returns for
\* the text on the detector as it was, rounded to two decimals; its
\* risk_level is the bucket of that unrounded score; its word_count,
\* character_count and unique_words are those of the normalized text
ReportRecomputesScore ==
  [][last'.op = "get_detailed_report" =>
       LET score    == detect_plagiarism(self, last'.text).ret
           features == extract_features(preprocess_text(last'.text))
       IN  /\ last'.report.plagiarism_score = round2(score)
           /\ last'.report.risk_level = RiskLevels[Bucket(score)]
           /\ last'.report.word_count = features.word_count
           /\ last'.report.character_count = features.char_count
           /\ last'.report.unique_words =
                Cardinality(Range(words_of(preprocess_text(last'.text))))]_vars

\* a report of a text that normalization changes, with a score that the
\* rounding changes
ReportRecomputesScoreReached ==
  /\ last.op = "get_detailed_report"
  /\ preprocess_text(last.text) # last.text
  /\ last.report.word_count = Len(words_of(preprocess_text(last.text)))
  /\ last.report.word_count > 0
  /\ last.score > 0
  /\ last.report.plagiarism_score # last.score

\* C24: an add_reference_text whose write of the model file fails leaves
\* the corpus in memory as it was before the call
FailedAddLeavesCorpus ==
  [][(last'.op = "add_reference_text" /\ last'.raised) =>
       reference_texts' = reference_texts]_vars

\* C26: in a report the plagiarism score is at least 0.4 times the
\* similarity reported with it (both in percent, before rounding), for the
\* texts below the 10 characters of the guard too
ReportScoresAreConsistent ==
  last.op = "get_detailed_report" =>
    10 * last.score >=
      SimilarityWeight * ((last.similarity_score * 100) \div (Unit \div Milli))

\* the entries of the file that process by put there with add_reference_text
PersistedBy(by, file) ==
  {preprocess_text(text) :
     text \in IF by = "app" THEN AppReferenceTexts ELSE AdminReferenceTexts}
    \cap Range(file.data.reference_texts)

OtherProcess(by) == IF by = "app" THEN "admin_tools" ELSE "app"

\* C25: with two detectors on one model file, an add_reference_text or
\* train_model of one leaves in the file every entry that an
\* add_reference_text of the other has put there
SharedFileOnlyGrows ==
  [][(/\ last'.op \in {"add_reference_text", "train_model"}
      /\ disk.kind = "artifact") =>
       PersistedBy(OtherProcess(last'.by), disk)
         \subseteq Range(disk'.data.reference_texts)]_vars

\* the name ends in a '.' and an extension without a '.' that, lower-cased,
\* is one of the allowed extensions
HasAllowedExtension(filename) ==
  LET cs == NameChars(filename)
  IN  \E k \in DOMAIN cs :
        /\ cs[k] = "."
        /\ \A j \in (k + 1)..Len(cs) : cs[j] # "."
        /\ lower(SubSeq(cs, k + 1, Len(cs))) \in allowed_extensions

\* C23: allowed_file accepts a name exactly when it has a '.' and what
\* follows the last '.', lower-cased, is an allowed extension, and
\* submit_assignment stores and scores a file only when allowed_file
\* accepts its name
OnlyAllowedFilesAreStored ==
  /\ app.request.checked =>
       app.request.allowed = HasAllowedExtension(app.request.filename)
  /\ (/\ app.request.route = "submit_assignment"
      /\ app.request.touched \cap {"uploads", "detector"} # {}) =>
       /\ app.request.checked
       /\ HasAllowedExtension(app.request.filename)
  /\ \A upload \in app.uploads : HasAllowedExtension(upload.given)
  /\ \A i \in DOMAIN app.submissions :
       HasAllowedExtension(app.submissions[i].given)

\* a file named with two dots and an extension in upper case, stored and
\* scored
OnlyAllowedFilesAreStoredReached ==
  /\ app.request.route = "submit_assignment"
  /\ app.request.filename \in {"notes.v2.txt", "Report.PDF"}
  /\ app.request.allowed
  /\ "detector" \in app.request.touched
  /\ \E upload \in app.uploads : upload.given = app.request.filename
  /\ last.op = "detect_plagiarism"
  /\ last.score > 0

LecturerRoutes ==
  {"lecturer_dashboard", "create_assignment", "view_submissions",
   "grade_submission", "plagiarism_report", "plagiarism_stats"}

ProtectedRoutes == LecturerRoutes \cup {"student_dashboard", "submit_assignment"}

\* a lecturer-only action touches the database or the detector only on a
\* session that holds a user_id and the user_type 'lecturer', and a session
\* holds a user_type only after authenticate_user has succeeded for it
GuardsHold ==
  /\ (app.request.route \in LecturerRoutes /\ app.request.touched # {}) =>
       /\ "user_id" \in app.request.session.keys
       /\ app.request.session.user_type = "lecturer"
  /\ \A session \in {app.request.session, app.cookie} :
       "user_type" \in session.keys =>
          [user_id |-> session.user_id, user_type |-> session.user_type]
             \in app.authenticated

\* C27: a lecturer-only action touches the database or the detector only
\* on a session that holds a user_id and the user_type 'lecturer'; a
\* session holds a user_type only after authenticate_user has succeeded for
\* that type; and after a logout no protected action is performed until a
\* login succeeds again
SessionGuardsProtectedActions ==
  /\ GuardsHold
  /\ (app.request.route \in ProtectedRoutes /\ app.request.touched # {}) =>
       app.logged_in
====
